---------------------------- MODULE Spec2Model ----------------------------
(***************************************************************************)
(* A model of the change-detection and dissemination code of the markdown  *)
(* parser service:                                                         *)
(*   - pkg/diff/block_diff.go      LineDiffer (LCS line diff), BlockDiffer *)
(*   - internal/parser/goldmark.go DetectNotionSyntax                      *)
(*   - internal/parser/goldmark.go MarkdownParser.Parse                    *)
(*   - internal/.../incremental    IncrementalParser.ParseLine             *)
(*   - internal/websocket/hub      Hub (clients, subscriptions, fan-out)   *)
(*                                                                         *)
(* Every component has a specification of its own (SpecLine, SpecLoop,     *)
(* SpecBlock, SpecHeap, SpecClassify, SpecHub, SpecRun); the variables of  *)
(* the other components keep their initial values in it.  SpecLoopFair and *)
(* SpecRunFair add the fairness of the goroutine that runs the loop.       *)
(*                                                                         *)
(* Texts and lines are sequences of one-character strings, so that         *)
(* splitting, trimming and prefix tests are computed character by          *)
(* character as the Go code computes them.                                 *)
(***************************************************************************)
EXTENDS Integers, Sequences, FiniteSets, TLC

VARIABLES
    \* ---- LineDiffer (pkg/diff/block_diff.go)
    oldContent,        \* first argument of the last ComputeLineDiff call
    newContent,        \* second argument of the last ComputeLineDiff call
    lineChanges,       \* the []LineChange it returned
    linePc,            \* "idle" before the first call, "done" after a call
    \* ---- the backtracking loop of computeLCS, iteration by iteration
    loopDp,            \* the table dp as the fill loops left it
    loopI,             \* the loop's i
    loopJ,             \* the loop's j
    loopChanges,       \* the loop's changes
    iterations,        \* the number of iterations begun
    branch,            \* the branch the last iteration took, with its cell
    loopPc,            \* "off", "loop" or "returned"
    \* ---- BlockDiffer (pkg/diff/block_diff.go)
    previousBlocks,    \* BlockDiffer.previousBlocks: id -> block
    changes,           \* the []BlockChange the last ComputeDiff returned
    diffArg,           \* the snapshot the last ComputeDiff was called with
    diffPrev,          \* previousBlocks as it was when that call began
    prevArg,           \* the snapshot of the call before it (NoCall: none)
    diffPc,            \* "fresh" after NewBlockDiffer, "done" after a call
    \* ---- DetectNotionSyntax (goldmark.go), ParseLine (incremental parser)
    line,              \* the line handed to DetectNotionSyntax / ParseLine
    lineNumber,        \* the lineNumber argument of ParseLine (0: none)
    syntax,            \* the category DetectNotionSyntax returned
    lineBlock,         \* the *Block ParseLine returned (NilBlock: nil)
    classifyPc,        \* "idle", "classified", "parsed" or "rendered"
    parseResult,       \* the (response, error) pair Parse returned
    \* ---- Hub (websocket hub)
    clients,           \* Hub.clients: the set of live clients
    send,              \* client.send: the messages buffered in the channel
    closed,            \* whether client.send has been closed
    subscribedDocuments, \* client.subscribedDocuments
    conn,              \* "new": not connected yet, "open": its reader runs,
                       \* "gone": its reader has exited
    crashed,           \* a goroutine has panicked: the process is down
    last,              \* the last operation, with the hub as it was before
    heap,              \* the Block objects, by address
    held,              \* the caller's snapshot: id to address
    retained,          \* d.previousBlocks: id to address
    returned,          \* the change list of the last call, blocks by address
    retainedValue,     \* the caller's snapshot as it was at the last call
    heapPc,            \* off, fresh, built, done or mutated
    pending            \* the requests waiting on the channels of the hub

lineVars == <<oldContent, newContent, lineChanges, linePc>>
loopVars == <<loopDp, loopI, loopJ, loopChanges, iterations, branch, loopPc>>
blockVars == <<previousBlocks, changes, diffArg, diffPrev, prevArg, diffPc>>

classifyVars == <<line, lineNumber, syntax, lineBlock, classifyPc, parseResult>>

hubVars == <<clients, send, closed, subscribedDocuments, conn, crashed, last>>

heapVars == <<heap, held, retained, returned, retainedValue, heapPc>>

runVars == <<pending>>

vars == <<lineVars, loopVars, blockVars, classifyVars, hubVars, heapVars, runVars>>

--------------------------------------------------------------------------
(* Bounds *)

\* Longest text (in characters) handed to ComputeLineDiff.
MaxTextLen == 4

\* Largest Block.Level of the blocks handed to ComputeDiff.
MaxLevel == 1

\* Longest run of '#' a line starts with, and the number of fragments a line
\* is made of.
MaxHashes == 7
MaxFrags == 3

\* Largest lineNumber handed to ParseLine.
MaxLineNumber == 2

\* The number of addresses of the heap the blocks are allocated in.
MaxAddr == 12

--------------------------------------------------------------------------
(* Generic helpers *)

NL == "\n"

\* All sequences over S of length at most n.
RECURSIVE SeqsUpTo(_, _)
SeqsUpTo(S, n) ==
    IF n = 0 THEN {<<>>}
    ELSE LET shorter == SeqsUpTo(S, n - 1)
         IN  shorter \cup {Append(s, c) : s \in {t \in shorter : Len(t) = n - 1}, c \in S}

\* Go's builtin max on ints (block_diff.go defines its own).
max(a, b) == IF a > b THEN a ELSE b

--------------------------------------------------------------------------
(* LineDiffer *)

TextChars == {"a", "b", NL}
Texts == SeqsUpTo(TextChars, MaxTextLen)

\* strings.Split(s, "\n"): the pieces between the separators; n separators
\* give n + 1 pieces, so the empty text gives one empty piece.
RECURSIVE SplitFrom(_, _, _, _)
SplitFrom(s, k, cur, acc) ==
    IF k > Len(s) THEN Append(acc, cur)
    ELSE IF s[k] = NL THEN SplitFrom(s, k + 1, <<>>, Append(acc, cur))
    ELSE SplitFrom(s, k + 1, Append(cur, s[k]), acc)

SplitDropTrailing(s) ==
    LET pieces == SplitFrom(s, 1, <<>>, <<>>)
    IN  IF pieces[Len(pieces)] = <<>> THEN SubSeq(pieces, 1, Len(pieces) - 1) ELSE pieces

Split(s) == SplitFrom(s, 1, <<>>, <<>>)

\* strings.Join(lines, "\n"), the inverse the round-trip properties read with.
RECURSIVE Join(_)
Join(lines) ==
    IF Len(lines) = 0 THEN <<>>
    ELSE IF Len(lines) = 1 THEN lines[1]
    ELSE lines[1] \o <<NL>> \o Join(Tail(lines))

LineChange(type, lineNum, content) ==
    [Type |-> type, LineNum |-> lineNum, Content |-> content]

\* The dp table of computeLCS, filled row by row as the two nested loops do.
\* dp[i][j] with i in 0..oldLen and j in 0..newLen; make() zeroes it.
ZeroTable(oldLen, newLen) == [i \in 0..oldLen |-> [j \in 0..newLen |-> 0]]

\* A mutant of FillTable: a cell of differing lines takes the value to its
\* left and never the value above it.
RECURSIVE FillTableNoUp(_, _, _, _, _)
FillTableNoUp(dp, oldLines, newLines, i, j) ==
    IF i > Len(oldLines) THEN dp
    ELSE IF j > Len(newLines) THEN FillTableNoUp(dp, oldLines, newLines, i + 1, 1)
    ELSE LET v == IF oldLines[i] = newLines[j]
                  THEN dp[i - 1][j - 1] + 1
                  ELSE dp[i][j - 1]
         IN  FillTableNoUp([dp EXCEPT ![i][j] = v], oldLines, newLines, i, j + 1)

RECURSIVE FillTable(_, _, _, _, _)
FillTable(dp, oldLines, newLines, i, j) ==
    IF i > Len(oldLines) THEN dp
    ELSE IF j > Len(newLines) THEN FillTable(dp, oldLines, newLines, i + 1, 1)
    ELSE LET v == IF oldLines[i] = newLines[j]
                  THEN dp[i - 1][j - 1] + 1
                  ELSE max(dp[i - 1][j], dp[i][j - 1])
         IN  FillTable([dp EXCEPT ![i][j] = v], oldLines, newLines, i, j + 1)

\* A mutant of Backtrack: the unchanged branch records the old line number.
RECURSIVE BacktrackOldNum(_, _, _, _, _, _)
BacktrackOldNum(dp, oldLines, newLines, i, j, acc) ==
    IF ~(i > 0 \/ j > 0) THEN acc
    ELSE IF i > 0 /\ j > 0 /\ oldLines[i] = newLines[j]
    THEN BacktrackOldNum(dp, oldLines, newLines, i - 1, j - 1,
                         <<LineChange("unchanged", i, newLines[j])>> \o acc)
    ELSE IF j > 0 /\ (i = 0 \/ dp[i][j - 1] >= dp[i - 1][j])
    THEN BacktrackOldNum(dp, oldLines, newLines, i, j - 1,
                         <<LineChange("added", j, newLines[j])>> \o acc)
    ELSE BacktrackOldNum(dp, oldLines, newLines, i - 1, j,
                         <<LineChange("removed", i, oldLines[i])>> \o acc)

\* A mutant of Backtrack: the added branch forgets to record the line.
RECURSIVE BacktrackDropAdded(_, _, _, _, _, _)
BacktrackDropAdded(dp, oldLines, newLines, i, j, acc) ==
    IF ~(i > 0 \/ j > 0) THEN acc
    ELSE IF i > 0 /\ j > 0 /\ oldLines[i] = newLines[j]
    THEN BacktrackDropAdded(dp, oldLines, newLines, i - 1, j - 1,
                            <<LineChange("unchanged", j, newLines[j])>> \o acc)
    ELSE IF j > 0 /\ (i = 0 \/ dp[i][j - 1] >= dp[i - 1][j])
    THEN BacktrackDropAdded(dp, oldLines, newLines, i, j - 1, acc)
    ELSE BacktrackDropAdded(dp, oldLines, newLines, i - 1, j,
                            <<LineChange("removed", i, oldLines[i])>> \o acc)

\* The backtracking loop of computeLCS: `for i > 0 || j > 0 { ... }`, each
\* branch prepending one entry to changes.  Go slices are 0-based, TLA+
\* sequences 1-based: oldLines[i-1] in the code is oldLines[i] here.
RECURSIVE Backtrack(_, _, _, _, _, _)
Backtrack(dp, oldLines, newLines, i, j, acc) ==
    IF ~(i > 0 \/ j > 0) THEN acc
    ELSE IF i > 0 /\ j > 0 /\ oldLines[i] = newLines[j]
    THEN Backtrack(dp, oldLines, newLines, i - 1, j - 1,
                   <<LineChange("unchanged", j, newLines[j])>> \o acc)
    ELSE IF j > 0 /\ (i = 0 \/ dp[i][j - 1] >= dp[i - 1][j])
    THEN Backtrack(dp, oldLines, newLines, i, j - 1,
                   <<LineChange("added", j, newLines[j])>> \o acc)
    ELSE \* `else if i > 0`: the only case left, since i > 0 \/ j > 0
         Backtrack(dp, oldLines, newLines, i - 1, j,
                   <<LineChange("removed", i, oldLines[i])>> \o acc)

computeLCS(oldLines, newLines) ==
    LET dp == FillTable(ZeroTable(Len(oldLines), Len(newLines)), oldLines, newLines, 1, 1)
    IN  Backtrack(dp, oldLines, newLines, Len(oldLines), Len(newLines), <<>>)

ComputeLineDiff(oldText, newText) == computeLCS(Split(oldText), Split(newText))

--------------------------------------------------------------------------
(* The backtracking loop of computeLCS, one iteration at a time *)

\* The lines and the filled table the loop works on.
OldLines == Split(oldContent)
NewLines == Split(newContent)
Filled(oldLines, newLines) ==
    FillTable(ZeroTable(Len(oldLines), Len(newLines)), oldLines, newLines, 1, 1)
Table == loopDp

\* The branch an iteration took and the cell (i, j) it took it at.
Branch(name, atI, atJ) == [name |-> name, i |-> atI, j |-> atJ]

\* The loop is not being looked at.
LoopOff ==
    /\ loopDp = ZeroTable(0, 0)
    /\ loopI = 0
    /\ loopJ = 0
    /\ loopChanges = <<>>
    /\ iterations = 0
    /\ branch = Branch("none", 0, 0)
    /\ loopPc = "off"

\* computeLCS has not been called yet.
LoopInit ==
    /\ loopDp = ZeroTable(0, 0)
    /\ loopI = 0
    /\ loopJ = 0
    /\ loopChanges = <<>>
    /\ iterations = 0
    /\ branch = Branch("none", 0, 0)
    /\ loopPc = "idle"

\* The caller holds the text it will hand in as old.
Hold ==
    /\ loopPc = "idle"
    /\ oldContent' \in Texts
    /\ loopPc' = "held"
    /\ UNCHANGED <<newContent, lineChanges, linePc, loopDp, loopI, loopJ,
                   loopChanges, iterations, branch>>

\* ComputeLineDiff(oldContent, newContent) calls computeLCS, which fills the
\* table and comes to the loop: `i, j := oldLen, newLen` with
\* `var changes []LineChange`.
Enter ==
    /\ loopPc = "held"
    /\ \E n \in Texts :
          /\ newContent' = n
          /\ loopDp' = Filled(OldLines, Split(n))
          /\ loopI' = Len(OldLines)
          /\ loopJ' = Len(Split(n))
    /\ loopPc' = "loop"
    /\ UNCHANGED <<oldContent, lineChanges, linePc, loopChanges, iterations, branch>>

\* A mutant of Iteration: a tie between the two table values goes to removed.
IterationTieRemoved ==
    /\ loopPc = "loop"
    /\ loopI > 0 \/ loopJ > 0
    /\ iterations' = iterations + 1
    /\ IF loopI > 0 /\ loopJ > 0 /\ OldLines[loopI] = NewLines[loopJ]
       THEN /\ loopChanges' = <<LineChange("unchanged", loopJ, NewLines[loopJ])>> \o loopChanges
            /\ loopI' = loopI - 1
            /\ loopJ' = loopJ - 1
            /\ branch' = Branch("unchanged", loopI, loopJ)
       ELSE IF loopJ > 0 /\ (loopI = 0 \/ Table[loopI][loopJ - 1] > Table[loopI - 1][loopJ])
       THEN /\ loopChanges' = <<LineChange("added", loopJ, NewLines[loopJ])>> \o loopChanges
            /\ loopJ' = loopJ - 1
            /\ loopI' = loopI
            /\ branch' = Branch("added", loopI, loopJ)
       ELSE IF loopI > 0
       THEN /\ loopChanges' = <<LineChange("removed", loopI, OldLines[loopI])>> \o loopChanges
            /\ loopI' = loopI - 1
            /\ loopJ' = loopJ
            /\ branch' = Branch("removed", loopI, loopJ)
       ELSE /\ branch' = Branch("none", loopI, loopJ)
            /\ UNCHANGED <<loopI, loopJ, loopChanges>>
    /\ UNCHANGED <<loopDp, loopPc>>

\* A mutant of Iteration: the removed branch forgets `i--`.
IterationNoDecrement ==
    /\ loopPc = "loop"
    /\ loopI > 0 \/ loopJ > 0
    /\ iterations < Len(OldLines) + Len(NewLines) + 1
    /\ iterations' = iterations + 1
    /\ IF loopI > 0 /\ loopJ > 0 /\ OldLines[loopI] = NewLines[loopJ]
       THEN /\ loopChanges' = <<LineChange("unchanged", loopJ, NewLines[loopJ])>> \o loopChanges
            /\ loopI' = loopI - 1
            /\ loopJ' = loopJ - 1
            /\ branch' = Branch("unchanged", loopI, loopJ)
       ELSE IF loopJ > 0 /\ (loopI = 0 \/ Table[loopI][loopJ - 1] >= Table[loopI - 1][loopJ])
       THEN /\ loopChanges' = <<LineChange("added", loopJ, NewLines[loopJ])>> \o loopChanges
            /\ loopJ' = loopJ - 1
            /\ loopI' = loopI
            /\ branch' = Branch("added", loopI, loopJ)
       ELSE /\ loopChanges' = <<LineChange("removed", loopI, OldLines[loopI])>> \o loopChanges
            /\ branch' = Branch("removed", loopI, loopJ)
            /\ UNCHANGED <<loopI, loopJ>>
    /\ UNCHANGED <<loopDp, loopPc>>

\* One iteration of `for i > 0 || j > 0 { if ... else if ... else if i > 0
\* ... }`.  An iteration in which no branch applied would leave i, j and
\* changes as they are.
Iteration ==
    /\ loopPc = "loop"
    /\ loopI > 0 \/ loopJ > 0
    /\ iterations' = iterations + 1
    /\ IF loopI > 0 /\ loopJ > 0 /\ OldLines[loopI] = NewLines[loopJ]
       THEN /\ loopChanges' = <<LineChange("unchanged", loopJ, NewLines[loopJ])>> \o loopChanges
            /\ loopI' = loopI - 1
            /\ loopJ' = loopJ - 1
            /\ branch' = Branch("unchanged", loopI, loopJ)
       ELSE IF loopJ > 0 /\ (loopI = 0 \/ Table[loopI][loopJ - 1] >= Table[loopI - 1][loopJ])
       THEN /\ loopChanges' = <<LineChange("added", loopJ, NewLines[loopJ])>> \o loopChanges
            /\ loopJ' = loopJ - 1
            /\ loopI' = loopI
            /\ branch' = Branch("added", loopI, loopJ)
       ELSE IF loopI > 0
       THEN /\ loopChanges' = <<LineChange("removed", loopI, OldLines[loopI])>> \o loopChanges
            /\ loopI' = loopI - 1
            /\ loopJ' = loopJ
            /\ branch' = Branch("removed", loopI, loopJ)
       ELSE /\ branch' = Branch("none", loopI, loopJ)
            /\ UNCHANGED <<loopI, loopJ, loopChanges>>
    /\ UNCHANGED <<loopDp, loopPc>>

\* The loop condition fails: `return changes`.
Return ==
    /\ loopPc = "loop"
    /\ ~(loopI > 0 \/ loopJ > 0)
    /\ loopPc' = "returned"
    /\ UNCHANGED <<loopDp, loopI, loopJ, loopChanges, iterations, branch>>

\* The state of the other specifications: no call is in progress.
LineIdle ==
    /\ oldContent = <<>>
    /\ newContent = <<>>
    /\ lineChanges = <<>>
    /\ linePc = "idle"

\* The arguments of the call, drawn from the bounded texts.
LineInit ==
    /\ oldContent \in Texts
    /\ newContent \in Texts
    /\ lineChanges = <<>>
    /\ linePc = "idle"

\* The call of ComputeLineDiff on the pair of texts.
ComputeLineDiffCall ==
    /\ linePc = "idle"
    /\ lineChanges' = ComputeLineDiff(oldContent, newContent)
    /\ linePc' = "done"
    /\ UNCHANGED <<oldContent, newContent>>


--------------------------------------------------------------------------
(* BlockDiffer *)

\* The keys of the snapshots (block ids are strings, content-addressed).
BlockIDs == {"b1", "b2"}

\* What diffArg, diffPrev and prevArg hold when there was no such call: a map
\* that is no snapshot.
NoCall == [none \in {"no call"} |-> "no call"]

Position(start) == [Start |-> start, End |-> start + 1, Line |-> start]

Block(id, type, level, content, html, pos, children) ==
    [ID |-> id, Type |-> type, Level |-> level, Content |-> content,
     HTML |-> html, Position |-> pos, Children |-> children]

\* A child block, for the blocks that have one.
Leaf == Block("leaf", "list_item", 0, "k", "<li>k</li>", Position(0), <<>>)

BlockTypes == {"paragraph", "h1"}
Levels == 0..MaxLevel
BlockContents == {"x", "x|0|y"}
BlockHTMLs == {"y|0|z", "z"}
Positions == {Position(0), Position(1)}
ChildLists == {<<>>, <<Leaf>>}

\* The fields of a block without its id.
Body(type, level, content, html, pos, children) ==
    [Type |-> type, Level |-> level, Content |-> content,
     HTML |-> html, Position |-> pos, Children |-> children]

AllBodies ==
    {Body(t, l, c, h, p, ch) : t \in BlockTypes, l \in Levels, c \in BlockContents,
                               h \in BlockHTMLs, p \in Positions, ch \in ChildLists}

BodyFields == {"Type", "Level", "Content", "HTML", "Position", "Children"}

Distance(a, b) == Cardinality({f \in BodyFields : a[f] # b[f]})

\* The blocks the snapshots are made of: a paragraph, every block that
\* differs from it in one field, and a block that differs from it in
\* content and markup together.
Anchor == Body("paragraph", 0, "x", "y|0|z", Position(0), <<>>)
Shifted == Body("paragraph", 0, "x|0|y", "z", Position(0), <<>>)
BlockPool == {b \in AllBodies : Distance(b, Anchor) <= 1} \cup {Shifted}

WithID(id, body) ==
    Block(id, body.Type, body.Level, body.Content, body.HTML, body.Position, body.Children)

\* map[string]*models.Block with every block stored under its own id.
Snapshots ==
    UNION {[D -> BlockPool] : D \in SUBSET BlockIDs}

Keyed(bodies) == [id \in DOMAIN bodies |-> WithID(id, bodies[id])]

EmptySnapshot == [id \in {} |-> Anchor]

\* fmt.Sprintf("%d", n) for the levels of the model.
FormatInt(n) == ToString(n)

\* A mutant of computeBlockHash: the markup is left out of the hash.
computeBlockHashNoHTML(block) ==
    block.Type \o "|" \o block.Content \o "|" \o FormatInt(block.Level)

\* computeBlockHash: md5 of fmt.Sprintf("%s|%s|%d|%s", Type, Content, Level,
\* HTML).  md5 is taken to be collision-free, so the hash is represented by
\* the string it is computed from.
computeBlockHash(block) ==
    block.Type \o "|" \o block.Content \o "|" \o FormatInt(block.Level)
        \o "|" \o block.HTML

hasBlockChanged(oldBlock, newBlock) ==
    computeBlockHash(oldBlock) # computeBlockHash(newBlock)

\* A mutant of copyBlock: the rendered markup is not copied.
copyBlockNoHTML(block) ==
    [ID |-> block.ID, Type |-> block.Type, Level |-> block.Level,
     Content |-> block.Content, HTML |-> "", Position |-> block.Position,
     Children |-> block.Children]

\* copyBlock: a new Block with every field copied and the children copied
\* recursively (a nil Children slice and an empty one are both <<>>).
RECURSIVE copyBlock(_)
copyBlock(block) ==
    [ID |-> block.ID, Type |-> block.Type, Level |-> block.Level,
     Content |-> block.Content, HTML |-> block.HTML, Position |-> block.Position,
     Children |-> IF Len(block.Children) > 0
                  THEN [i \in 1..Len(block.Children) |-> copyBlock(block.Children[i])]
                  ELSE <<>>]

copyBlocks(blocks) == [id \in DOMAIN blocks |-> copyBlock(blocks[id])]

BlockChange(type, blockID, block) ==
    [Type |-> type, BlockID |-> blockID, Block |-> block]

\* All orders in which a `range` over a map with these keys may visit them.
Orders(S) ==
    {o \in [1..Cardinality(S) -> S] : \A i, j \in 1..Cardinality(S) : i # j => o[i] # o[j]}

\* A mutant of NewLoop: a block that is in both snapshots is never compared.
RECURSIVE NewLoopAddedOnly(_, _, _, _, _)
NewLoopAddedOnly(prev, newBlocks, order, k, acc) ==
    IF k > Len(order) THEN acc
    ELSE LET blockID == order[k]
         IN  IF blockID \in DOMAIN prev
             THEN NewLoopAddedOnly(prev, newBlocks, order, k + 1, acc)
             ELSE NewLoopAddedOnly(prev, newBlocks, order, k + 1,
                      Append(acc, BlockChange("added", blockID, newBlocks[blockID])))

\* A mutant of NewLoop: a modified entry carries the previous block.
RECURSIVE NewLoopOldPayload(_, _, _, _, _)
NewLoopOldPayload(prev, newBlocks, order, k, acc) ==
    IF k > Len(order) THEN acc
    ELSE LET blockID == order[k]
             newBlock == newBlocks[blockID]
         IN  IF blockID \in DOMAIN prev
             THEN IF hasBlockChanged(prev[blockID], newBlock)
                  THEN NewLoopOldPayload(prev, newBlocks, order, k + 1,
                               Append(acc, BlockChange("modified", blockID, prev[blockID])))
                  ELSE NewLoopOldPayload(prev, newBlocks, order, k + 1, acc)
             ELSE NewLoopOldPayload(prev, newBlocks, order, k + 1,
                          Append(acc, BlockChange("added", blockID, newBlock)))

\* The first loop of ComputeDiff, `for blockID, newBlock := range newBlocks`,
\* visiting the keys in the given order.
RECURSIVE NewLoop(_, _, _, _, _)
NewLoop(prev, newBlocks, order, k, acc) ==
    IF k > Len(order) THEN acc
    ELSE LET blockID == order[k]
             newBlock == newBlocks[blockID]
         IN  IF blockID \in DOMAIN prev
             THEN IF hasBlockChanged(prev[blockID], newBlock)
                  THEN NewLoop(prev, newBlocks, order, k + 1,
                               Append(acc, BlockChange("modified", blockID, newBlock)))
                  ELSE NewLoop(prev, newBlocks, order, k + 1, acc)
             ELSE NewLoop(prev, newBlocks, order, k + 1,
                          Append(acc, BlockChange("added", blockID, newBlock)))

\* A mutant of OldLoop: removals are not reported.
OldLoopSilent(prev, seenBlocks, order, k, acc) == acc

\* The second loop, `for blockID, oldBlock := range d.previousBlocks`, which
\* reports the ids the first loop did not see.
RECURSIVE OldLoop(_, _, _, _, _)
OldLoop(prev, seenBlocks, order, k, acc) ==
    IF k > Len(order) THEN acc
    ELSE LET blockID == order[k]
         IN  IF blockID \notin seenBlocks
             THEN OldLoop(prev, seenBlocks, order, k + 1,
                          Append(acc, BlockChange("removed", blockID, prev[blockID])))
             ELSE OldLoop(prev, seenBlocks, order, k + 1, acc)

\* The change list ComputeDiff returns when its two loops visit the maps in
\* the orders orderNew and orderOld.
ComputeDiffChanges(prev, newBlocks, orderNew, orderOld) ==
    OldLoop(prev, DOMAIN newBlocks, orderOld, 1,
            NewLoop(prev, newBlocks, orderNew, 1, <<>>))

BlockFresh ==
    /\ previousBlocks = EmptySnapshot
    /\ changes = <<>>
    /\ diffArg = NoCall
    /\ diffPrev = NoCall
    /\ prevArg = NoCall
    /\ diffPc = "fresh"

\* d.ComputeDiff(newBlocks).  Go visits a map in an unspecified order, so the
\* two loops take any order of the keys.
ComputeDiff ==
    \E bodies \in Snapshots :
      LET newBlocks == Keyed(bodies) IN
      \E orderNew \in Orders(DOMAIN newBlocks), orderOld \in Orders(DOMAIN previousBlocks) :
        /\ changes' = ComputeDiffChanges(previousBlocks, newBlocks, orderNew, orderOld)
        /\ previousBlocks' = copyBlocks(newBlocks)
        /\ diffArg' = newBlocks
        /\ diffPrev' = previousBlocks
        /\ prevArg' = diffArg
        /\ diffPc' = "done"

--------------------------------------------------------------------------
(* DetectNotionSyntax *)

\* The backquote character of a code fence.
Tick == "backquote"

Str2(a, b) == <<a, b>>
Str3(a, b, c) == <<a, b, c>>

\* n times the character c.
Run(c, n) == [k \in 1..n |-> c]

\* A decimal number, as prose may begin with one.
Decimal == <<"3", ".", "1", "4">>

\* The pieces the lines of the model are made of.
Fragments ==
    {Run("#", n) : n \in 1..MaxHashes} \cup
    { <<" ">>, <<"\t">>, <<"a">>, <<"1">>, Decimal,
      Str2("-", " "), Str2("*", " "), Str2("+", " "), Str2(">", " "), Str2(".", " "),
      Str3("[", " ", "]"), Str3("[", "x", "]"), Str3(Tick, Tick, Tick) }

RECURSIVE Flatten(_)
Flatten(frags) == IF frags = <<>> THEN <<>> ELSE Head(frags) \o Flatten(Tail(frags))

Lines == {Flatten(fs) : fs \in SeqsUpTo(Fragments, MaxFrags)}

\* The white space strings.TrimSpace removes, among the characters of Lines.
WhiteSpace == {" ", "\t"}

RECURSIVE TrimLeft(_)
TrimLeft(s) == IF s # <<>> /\ Head(s) \in WhiteSpace THEN TrimLeft(Tail(s)) ELSE s

RECURSIVE TrimRight(_)
TrimRight(s) ==
    IF s # <<>> /\ s[Len(s)] \in WhiteSpace THEN TrimRight(SubSeq(s, 1, Len(s) - 1)) ELSE s

\* A mutant of TrimSpace: only the left side is trimmed.
TrimSpaceLeftOnly(s) == TrimLeft(s)

\* strings.TrimSpace
TrimSpace(s) == TrimRight(TrimLeft(s))

\* strings.HasPrefix
HasPrefix(s, prefix) ==
    Len(s) >= Len(prefix) /\ SubSeq(s, 1, Len(prefix)) = prefix

\* strings.Index: the 1-based position of the first occurrence of sep in s,
\* 0 when there is none.
RECURSIVE IndexFrom(_, _, _)
IndexFrom(s, sep, k) ==
    IF k + Len(sep) - 1 > Len(s) THEN 0
    ELSE IF SubSeq(s, k, k + Len(sep) - 1) = sep THEN k
    ELSE IndexFrom(s, sep, k + 1)

\* strings.SplitN(s, sep, 2): s cut at the first occurrence of sep, or s
\* alone when sep does not occur.
SplitN2(s, sep) ==
    LET at == IndexFrom(s, sep, 1)
    IN  IF at = 0 THEN <<s>>
        ELSE <<SubSeq(s, 1, at - 1), SubSeq(s, at + Len(sep), Len(s))>>

Digits == {"0", "1", "2", "3", "4", "5", "6", "7", "8", "9"}

\* unicode.IsDigit(rune(b)) for a byte b
IsDigit(c) == c \in Digits

HashSp(n) == Append(Run("#", n), " ")

\* A mutant of DetectNotionSyntax: the list test comes before the checkbox
\* test.
DetectNotionSyntaxListFirst(l) ==
    LET trimmed == TrimSpace(l) IN
    IF HasPrefix(trimmed, HashSp(1)) THEN "h1"
    ELSE IF HasPrefix(trimmed, HashSp(2)) THEN "h2"
    ELSE IF HasPrefix(trimmed, HashSp(3)) THEN "h3"
    ELSE IF HasPrefix(trimmed, HashSp(4)) THEN "h4"
    ELSE IF HasPrefix(trimmed, HashSp(5)) THEN "h5"
    ELSE IF HasPrefix(trimmed, HashSp(6)) THEN "h6"
    ELSE IF \/ HasPrefix(trimmed, Str2("-", " "))
            \/ HasPrefix(trimmed, Str2("*", " "))
            \/ HasPrefix(trimmed, Str2("+", " "))
         THEN "unordered_list"
    ELSE IF \/ HasPrefix(trimmed, <<"-", " ", "[", " ", "]">>)
            \/ HasPrefix(trimmed, <<"-", " ", "[", "x", "]">>)
         THEN "checkbox"
    ELSE IF Len(trimmed) > 0 /\ IsDigit(trimmed[1])
            /\ Len(SplitN2(trimmed, Str2(".", " "))) = 2
         THEN "ordered_list"
    ELSE IF HasPrefix(trimmed, Str3(Tick, Tick, Tick)) THEN "code_block"
    ELSE IF HasPrefix(trimmed, Str2(">", " ")) THEN "blockquote"
    ELSE "paragraph"

\* A mutant of DetectNotionSyntax: a leading digit alone makes an ordered
\* list.
DetectNotionSyntaxDigitOnly(l) ==
    LET trimmed == TrimSpace(l) IN
    IF HasPrefix(trimmed, HashSp(1)) THEN "h1"
    ELSE IF HasPrefix(trimmed, HashSp(2)) THEN "h2"
    ELSE IF HasPrefix(trimmed, HashSp(3)) THEN "h3"
    ELSE IF HasPrefix(trimmed, HashSp(4)) THEN "h4"
    ELSE IF HasPrefix(trimmed, HashSp(5)) THEN "h5"
    ELSE IF HasPrefix(trimmed, HashSp(6)) THEN "h6"
    ELSE IF \/ HasPrefix(trimmed, <<"-", " ", "[", " ", "]">>)
            \/ HasPrefix(trimmed, <<"-", " ", "[", "x", "]">>)
         THEN "checkbox"
    ELSE IF \/ HasPrefix(trimmed, Str2("-", " "))
            \/ HasPrefix(trimmed, Str2("*", " "))
            \/ HasPrefix(trimmed, Str2("+", " "))
         THEN "unordered_list"
    ELSE IF Len(trimmed) > 0 /\ IsDigit(trimmed[1]) THEN "ordered_list"
    ELSE IF HasPrefix(trimmed, Str3(Tick, Tick, Tick)) THEN "code_block"
    ELSE IF HasPrefix(trimmed, Str2(">", " ")) THEN "blockquote"
    ELSE "paragraph"

\* MarkdownParser.DetectNotionSyntax: the chain of `if ... { return ... }`.
DetectNotionSyntax(l) ==
    LET trimmed == TrimSpace(l) IN
    IF HasPrefix(trimmed, HashSp(1)) THEN "h1"
    ELSE IF HasPrefix(trimmed, HashSp(2)) THEN "h2"
    ELSE IF HasPrefix(trimmed, HashSp(3)) THEN "h3"
    ELSE IF HasPrefix(trimmed, HashSp(4)) THEN "h4"
    ELSE IF HasPrefix(trimmed, HashSp(5)) THEN "h5"
    ELSE IF HasPrefix(trimmed, HashSp(6)) THEN "h6"
    ELSE IF \/ HasPrefix(trimmed, <<"-", " ", "[", " ", "]">>)
            \/ HasPrefix(trimmed, <<"-", " ", "[", "x", "]">>)
         THEN "checkbox"
    ELSE IF \/ HasPrefix(trimmed, Str2("-", " "))
            \/ HasPrefix(trimmed, Str2("*", " "))
            \/ HasPrefix(trimmed, Str2("+", " "))
         THEN "unordered_list"
    ELSE IF Len(trimmed) > 0 /\ IsDigit(trimmed[1])
            /\ Len(SplitN2(trimmed, Str2(".", " "))) = 2
         THEN "ordered_list"
    ELSE IF HasPrefix(trimmed, Str3(Tick, Tick, Tick)) THEN "code_block"
    ELSE IF HasPrefix(trimmed, Str2(">", " ")) THEN "blockquote"
    ELSE "paragraph"

NilBlock == [nil |-> TRUE]

\* Parse has not been called.
NoParse == [none |-> "no call"]

\* The state of the other specifications: no line is being looked at.
ClassifyIdle ==
    /\ line = <<>>
    /\ lineNumber = 0
    /\ syntax = "none"
    /\ lineBlock = NilBlock
    /\ classifyPc = "idle"
    /\ parseResult = NoParse

\* The line to classify or to parse, drawn from the bounded lines.
ClassifyInit ==
    /\ line \in Lines
    /\ lineNumber = 0
    /\ syntax = "none"
    /\ lineBlock = NilBlock
    /\ classifyPc = "idle"
    /\ parseResult = NoParse

\* p.DetectNotionSyntax(line)
DetectNotionSyntaxCall ==
    /\ classifyPc = "idle"
    /\ syntax' = DetectNotionSyntax(line)
    /\ classifyPc' = "classified"
    /\ UNCHANGED <<line, lineNumber, lineBlock, parseResult>>

--------------------------------------------------------------------------
(* IncrementalParser.ParseLine *)

\* What goldmark's Parse gives ParseLine for a non-empty line.  The renderer
\* is an external library: its result is any of these, an error or a map of
\* blocks (the document node is of type "unknown"; a node whose rendering
\* failed has empty HTML).
GoldmarkBlocks ==
    { [Type |-> "unknown", HTML |-> "<doc>"],
      [Type |-> "h1", HTML |-> "<h1>"],
      [Type |-> "paragraph", HTML |-> ""] }

GoldmarkResults ==
    {[err |-> TRUE, blocks |-> {}]} \cup
    {[err |-> FALSE, blocks |-> bs] : bs \in SUBSET GoldmarkBlocks}

\* renderLineToHTML: the markup of a single line, represented by the case of
\* the switch that produced it.
renderLineToHTML(l, syntaxType) == "line:" \o syntaxType

\* generateLineID: "line_<n>_<md5 of the trimmed line>", represented by the
\* pair it is computed from.
generateLineID(l, n) ==
    [line |-> n,
     md5Of |-> IF TrimSpace(l) = <<>> THEN <<"e", "m", "p", "t", "y">> ELSE TrimSpace(l)]

\* The block ParseLine builds before it consults goldmark.
LineBlock(l, n, syntaxType) ==
    [ID |-> generateLineID(l, n), Type |-> syntaxType, Level |-> 0, Content |-> l,
     HTML |-> renderLineToHTML(l, syntaxType),
     Position |-> [Line |-> n, Start |-> 0, End |-> Len(l)],
     Children |-> <<>>]

\* A mutant of ParseLineResults: goldmark's type is taken whatever the
\* detected type is.
ParseLineResultsAnyType(l, n, g) ==
    IF TrimSpace(l) = <<>> THEN {NilBlock}
    ELSE LET syntaxType == DetectNotionSyntax(l)
             block == LineBlock(l, n, syntaxType)
             usable == {gb \in g.blocks : gb.Type # "unknown" /\ gb.HTML # ""}
         IN  IF g.err \/ usable = {} THEN {block}
             ELSE {[block EXCEPT !.HTML = gb.HTML, !.Type = gb.Type] : gb \in usable}

\* The blocks ParseLine(l, n) may return when goldmark's Parse gives g: nil
\* for a line that trims to nothing; otherwise the block of the detected
\* type, updated from the first goldmark block (in the map's unspecified
\* order) that is known, rendered and of a compatible type.
ParseLineResults(l, n, g) ==
    IF TrimSpace(l) = <<>> THEN {NilBlock}
    ELSE LET syntaxType == DetectNotionSyntax(l)
             block == LineBlock(l, n, syntaxType)
             usable == {gb \in g.blocks :
                           /\ gb.Type # "unknown"
                           /\ gb.HTML # ""
                           /\ (syntaxType = "paragraph" \/ syntaxType = gb.Type)}
         IN  IF g.err \/ Cardinality(g.blocks) = 0 \/ usable = {} THEN {block}
             ELSE {[block EXCEPT !.HTML = gb.HTML,
                                 !.Type = IF syntaxType = "paragraph" THEN gb.Type ELSE @]
                      : gb \in usable}

\* ip.ParseLine(line, lineNumber)
ParseLine ==
    /\ classifyPc = "idle"
    /\ \E n \in 1..MaxLineNumber, g \in GoldmarkResults :
          /\ lineNumber' = n
          /\ lineBlock' \in ParseLineResults(line, n, g)
    /\ classifyPc' = "parsed"
    /\ UNCHANGED <<line, syntax, parseResult>>

--------------------------------------------------------------------------
(* MarkdownParser.Parse *)

\* A nil *ParseResponse, and a nil error.
NilResponse == [nil |-> TRUE]
NoError == "nil"

ParseResponse(html, blocks) == [HTML |-> html, Blocks |-> blocks, Success |-> TRUE]

\* What goldmark's renderer writes for a document that renders.
Rendered == "<html>"

\* A mutant of Parse: empty content is handed to goldmark like any other.
ParseNoEmptyCase(content, g) ==
    IF g.err
    THEN [response |-> NilResponse, err |-> "failed to render HTML"]
    ELSE [response |-> ParseResponse(Rendered, g.blocks), err |-> NoError]

\* p.Parse(content) when goldmark's parser and renderer give g: the pair
\* (response, error) it returns.
Parse(content, g) ==
    IF content = <<>>
    THEN [response |-> ParseResponse("", {}), err |-> NoError]
    ELSE IF g.err
         THEN [response |-> NilResponse, err |-> "failed to render HTML"]
         ELSE [response |-> ParseResponse(Rendered, g.blocks), err |-> NoError]

\* p.Parse(line)
ParseCall ==
    /\ classifyPc = "idle"
    /\ \E g \in GoldmarkResults : parseResult' = Parse(line, g)
    /\ classifyPc' = "rendered"
    /\ UNCHANGED <<line, lineNumber, syntax, lineBlock>>

--------------------------------------------------------------------------
(* Hub *)

Clients == {"c1", "c2"}
Docs == {"d1", "d2"}

\* msg.DocumentID == "" : the message names no document.
NoDoc == ""
NoClient == "none"

\* The capacity of a client's send channel.  The client is created outside
\* the hub; the hub only ever sends without blocking.
SendBufferSize == 1

\* The hub and its clients as one value, for the handlers to transform.
Hub(cl, sd, cd, subs, cr) ==
    [clients |-> cl, send |-> sd, closed |-> cd, subs |-> subs, crashed |-> cr]

NewHub ==
    Hub({}, [c \in Clients |-> <<>>], [c \in Clients |-> FALSE],
        [c \in Clients |-> {}], FALSE)

HubNow == Hub(clients, send, closed, subscribedDocuments, crashed)

\* A mutant of TrySend: a full buffer drops the message, not the client.
TrySendKeepClient(H, c, msg) ==
    IF H.closed[c] THEN [H EXCEPT !.crashed = TRUE]
    ELSE IF Len(H.send[c]) < SendBufferSize
         THEN [H EXCEPT !.send[c] = Append(@, msg)]
         ELSE H

\* select { case client.send <- data: default: close(client.send);
\* delete(h.clients, client) }.  A send on a closed channel panics, and so
\* would closing it a second time.
TrySend(H, c, msg) ==
    IF H.closed[c] THEN [H EXCEPT !.crashed = TRUE]
    ELSE IF Len(H.send[c]) < SendBufferSize
         THEN [H EXCEPT !.send[c] = Append(@, msg)]
         ELSE [H EXCEPT !.closed[c] = TRUE, !.clients = @ \ {c}]

\* sendToClient (json.Marshal of a response does not fail)
sendToClient(H, c, msg) == IF H.crashed THEN H ELSE TrySend(H, c, msg)

\* A mutant of sendError: the error is not sent at all.
sendErrorSilent(H, c) == H

\* sendError
sendError(H, c) == sendToClient(H, c, "error")

\* The result of a fan-out loop: the hub after it and the clients it tried
\* to enqueue to.
FanOut(H, attempted) == [hub |-> H, attempted |-> attempted]

\* A mutant of DocumentLoop: the subscription is not looked at.
RECURSIVE DocumentLoopAll(_, _, _, _, _, _)
DocumentLoopAll(H, documentID, msg, order, k, attempted) ==
    IF k > Len(order) \/ H.crashed THEN FanOut(H, attempted)
    ELSE DocumentLoopAll(TrySend(H, order[k], msg), documentID, msg, order, k + 1,
                         attempted \cup {order[k]})

\* The loop of broadcastToDocument, `for client := range h.clients`, over the
\* clients that were live when it began, in the given order.
RECURSIVE DocumentLoop(_, _, _, _, _, _)
DocumentLoop(H, documentID, msg, order, k, attempted) ==
    IF k > Len(order) \/ H.crashed THEN FanOut(H, attempted)
    ELSE LET client == order[k] IN
         IF documentID \in H.subs[client]
         THEN DocumentLoop(TrySend(H, client, msg), documentID, msg, order, k + 1,
                           attempted \cup {client})
         ELSE DocumentLoop(H, documentID, msg, order, k + 1, attempted)

\* broadcastToDocument(documentID, response)
broadcastToDocument(H, documentID, msg, order) ==
    DocumentLoop(H, documentID, msg, order, 1, {})

\* A mutant of BroadcastLoop: only clients with a subscription are served.
RECURSIVE BroadcastLoopSubscribed(_, _, _, _, _)
BroadcastLoopSubscribed(H, msg, order, k, attempted) ==
    IF k > Len(order) \/ H.crashed THEN FanOut(H, attempted)
    ELSE IF H.subs[order[k]] = {}
         THEN BroadcastLoopSubscribed(H, msg, order, k + 1, attempted)
         ELSE BroadcastLoopSubscribed(TrySend(H, order[k], msg), msg, order, k + 1,
                                      attempted \cup {order[k]})

\* The loop of the broadcast case of Run, over every live client.
RECURSIVE BroadcastLoop(_, _, _, _, _)
BroadcastLoop(H, msg, order, k, attempted) ==
    IF k > Len(order) \/ H.crashed THEN FanOut(H, attempted)
    ELSE BroadcastLoop(TrySend(H, order[k], msg), msg, order, k + 1,
                       attempted \cup {order[k]})

\* What `last` records of a step.
Step(op, c, d, pre, mid, attempted) ==
    [op |-> op, client |-> c, doc |-> d, pre |-> pre, mid |-> mid,
     attempted |-> attempted]

\* The hub variables after a handler that turned the hub into H.
Becomes(H) ==
    /\ clients' = H.clients
    /\ send' = H.send
    /\ closed' = H.closed
    /\ subscribedDocuments' = H.subs
    /\ crashed' = H.crashed

HubInit ==
    /\ clients = NewHub.clients
    /\ send = NewHub.send
    /\ closed = NewHub.closed
    /\ subscribedDocuments = NewHub.subs
    /\ crashed = FALSE
    /\ conn = [c \in Clients |-> "new"]
    /\ last = Step("init", NoClient, NoDoc, NewHub, NewHub, {})

\* A mutant of Register: the client joins the live set but no acknowledgement
\* is sent.
RegisterNoAck(c) ==
    /\ ~crashed
    /\ conn[c] = "new"
    /\ LET H1 == [HubNow EXCEPT !.clients = @ \cup {c}]
       IN  /\ Becomes(H1)
           /\ last' = Step("register", c, NoDoc, HubNow, H1, {})
    /\ conn' = [conn EXCEPT ![c] = "open"]

\* Run, `case client := <-h.register`: a new connection hands its client to
\* the hub, which adds it and sends the "connected" acknowledgement.
Register(c) ==
    /\ ~crashed
    /\ conn[c] = "new"
    /\ LET H1 == [HubNow EXCEPT !.clients = @ \cup {c}]
           H2 == TrySend(H1, c, "connected")
       IN  /\ Becomes(H2)
           /\ last' = Step("register", c, NoDoc, HubNow, H1, {c})
    /\ conn' = [conn EXCEPT ![c] = "open"]

\* Run, `case client := <-h.unregister`: the reader of a connection has
\* exited and hands its client in.
Unregister(c) ==
    /\ ~crashed
    /\ conn[c] = "open"
    /\ LET H1 == IF c \in clients
                 THEN IF closed[c]
                      THEN [HubNow EXCEPT !.clients = @ \ {c}, !.crashed = TRUE]
                      ELSE [HubNow EXCEPT !.clients = @ \ {c}, !.closed[c] = TRUE]
                 ELSE HubNow
       IN  /\ Becomes(H1)
           /\ last' = Step("unregister", c, NoDoc, HubNow, HubNow, {})
    /\ conn' = [conn EXCEPT ![c] = "gone"]

\* Run, `case message := <-h.broadcast`
BroadcastAll ==
    /\ ~crashed
    /\ \E order \in Orders(clients) :
          LET out == BroadcastLoop(HubNow, "broadcast", order, 1, {})
          IN  /\ Becomes(out.hub)
              /\ last' = Step("broadcast", NoClient, NoDoc, HubNow, HubNow, out.attempted)
    /\ UNCHANGED conn

\* The reader of a connection hands what it receives to HandleMessage.  It is
\* started together with the register request, which Run may serve only
\* after the reader has already handled messages, and it runs until it
\* exits and hands the client to unregister.
ReaderRuns(c) == conn[c] \in {"new", "open"}

\* HandleMessage on a message that cannot be decoded, has an unknown type or
\* lacks its required field: sendError.
HandleInvalid(c) ==
    /\ ~crashed
    /\ ReaderRuns(c)
    /\ Becomes(sendError(HubNow, c))
    /\ last' = Step("invalid", c, NoDoc, HubNow, HubNow, {})
    /\ UNCHANGED conn

\* handleParse with content: "parsed", or "error" when the parser fails.
HandleParse(c) ==
    /\ ~crashed
    /\ ReaderRuns(c)
    /\ \E ok \in BOOLEAN :
          Becomes(IF ok THEN sendToClient(HubNow, c, "parsed") ELSE sendError(HubNow, c))
    /\ last' = Step("parse", c, NoDoc, HubNow, HubNow, {})
    /\ UNCHANGED conn

\* handleParseIncremental with content and a parser that succeeds: the
\* result goes to the client and then, when the message names a document,
\* to broadcastToDocument.
HandleParseIncremental(c, d) ==
    /\ ~crashed
    /\ ReaderRuns(c)
    /\ LET H1 == sendToClient(HubNow, c, "parsed_incremental") IN
       IF d = NoDoc \/ H1.crashed
       THEN /\ Becomes(H1)
            /\ last' = Step("parse_incremental", c, NoDoc, HubNow, H1, {})
       ELSE \E order \in Orders(H1.clients) :
              LET out == broadcastToDocument(H1, d, "parsed_incremental", order)
              IN  /\ Becomes(out.hub)
                  /\ last' = Step("dispatch", c, d, HubNow, H1, out.attempted)
    /\ UNCHANGED conn

\* handleParseIncremental when the parser fails: sendError.
HandleParseIncrementalError(c) ==
    /\ ~crashed
    /\ ReaderRuns(c)
    /\ Becomes(sendError(HubNow, c))
    /\ last' = Step("parse_incremental_error", c, NoDoc, HubNow, HubNow, {})
    /\ UNCHANGED conn

\* handleSubscribe with a document id
HandleSubscribe(c, d) ==
    /\ ~crashed
    /\ ReaderRuns(c)
    /\ LET H1 == [HubNow EXCEPT !.subs[c] = @ \cup {d}]
       IN  /\ Becomes(sendToClient(H1, c, "subscribed"))
           /\ last' = Step("subscribe", c, d, HubNow, H1, {})
    /\ UNCHANGED conn

\* A mutant of HandleUnsubscribe: every subscription of the client is dropped.
HandleUnsubscribeAll(c, d) ==
    /\ ~crashed
    /\ ReaderRuns(c)
    /\ LET H1 == [HubNow EXCEPT !.subs[c] = {}]
       IN  /\ Becomes(sendToClient(H1, c, "unsubscribed"))
           /\ last' = Step("unsubscribe", c, d, HubNow, H1, {})
    /\ UNCHANGED conn

\* handleUnsubscribe with a document id
HandleUnsubscribe(c, d) ==
    /\ ~crashed
    /\ ReaderRuns(c)
    /\ LET H1 == [HubNow EXCEPT !.subs[c] = @ \ {d}]
       IN  /\ Becomes(sendToClient(H1, c, "unsubscribed"))
           /\ last' = Step("unsubscribe", c, d, HubNow, H1, {})
    /\ UNCHANGED conn

\* The writer of a connection takes the next message off client.send (a
\* closed channel still yields what it buffered).
WritePump(c) ==
    /\ ~crashed
    /\ send[c] # <<>>
    /\ send' = [send EXCEPT ![c] = Tail(@)]
    /\ last' = Step("write", c, NoDoc, HubNow, HubNow, {})
    /\ UNCHANGED <<clients, closed, subscribedDocuments, crashed, conn>>

\* HandleMessage runs on the goroutine of its caller, never on Run's: when
\* the handler for c is about to delete c from h.clients (its buffer is
\* full) while Run ranges over the same map for a broadcast, nothing orders
\* the two accesses.  Either they happen to fall one after the other, which
\* the other actions cover, or the runtime stops the process with
\* "concurrent map iteration and map write".
ConcurrentMapAccess(c) ==
    /\ ~crashed
    /\ conn[c] = "open"
    /\ c \in clients
    /\ Len(send[c]) = SendBufferSize
    /\ crashed' = TRUE
    /\ last' = Step("race", c, NoDoc, HubNow, HubNow, {})
    /\ UNCHANGED <<clients, send, closed, subscribedDocuments, conn>>

--------------------------------------------------------------------------
(* Hub.Run and the requests waiting on its channels *)

\* A request a goroutine is blocked sending on h.register, h.unregister or
\* h.broadcast until Run receives it (the three channels are unbuffered).
Request(kind, c) == [kind |-> kind, client |-> c]

Requests ==
    {Request("register", c) : c \in Clients} \cup
    {Request("unregister", c) : c \in Clients} \cup
    {Request("broadcast", NoClient)}

\* No goroutine is sending to the hub.
RunIdle == pending = {}

\* A goroutine begins to send a request: a new connection its client on
\* h.register, the reader of a registered connection, when it exits, its
\* client on h.unregister, and anyone a payload on h.broadcast.
Submit(r) ==
    /\ ~crashed
    /\ r \notin pending
    /\ r.kind = "register" => conn[r.client] = "new"
    /\ r.kind = "unregister" => conn[r.client] = "open"
    /\ pending' = pending \cup {r}
    /\ UNCHANGED hubVars

\* One turn of the `for { select { ... } }` of Run: it receives one of the
\* requests that are waiting and runs the case to its end.
Serve(r) ==
    /\ r \in pending
    /\ pending' = pending \ {r}
    /\ IF r.kind = "register" THEN Register(r.client)
       ELSE IF r.kind = "unregister" THEN Unregister(r.client)
       ELSE BroadcastAll

\* The reader of c hands a message to HandleMessage; it has not exited.
Receive(c) ==
    /\ Request("unregister", c) \notin pending
    /\ HandleInvalid(c)
    /\ UNCHANGED pending

\* The writer of c transmits a message.  Nothing obliges it to: it may be
\* stalled for ever.
Drain(c) ==
    /\ WritePump(c)
    /\ UNCHANGED pending

--------------------------------------------------------------------------
(* BlockDiffer over a heap: *models.Block as the pointer it is *)

Addrs == 1..MaxAddr

\* An address no block is stored at.
Free == [free |-> TRUE]

EmptyHeap == [a \in Addrs |-> Free]

\* map[string]*models.Block with no key.
NoBlocks == [id \in {} |-> 1]

\* The blocks the caller's snapshots are made of: two blocks that differ in
\* content and markup, and a block with a child.
Parent == Body("paragraph", 0, "x", "y|0|z", Position(0), <<Leaf>>)
HeapPool == {Anchor, Shifted, Parent}
HeapSnapshots == UNION {[D -> HeapPool] : D \in SUBSET BlockIDs}

AddrsOf(m) == {m[x] : x \in DOMAIN m}

\* new(Block): the lowest free address (which one it is cannot be observed).
Fresh(h) == CHOOSE a \in Addrs : h[a] = Free /\ \A b \in Addrs : h[b] = Free => a <= b

\* The addresses reached from those of A through Children.
RECURSIVE Reach(_, _)
Reach(h, A) ==
    LET more == A \cup UNION {AddrsOf(h[a].Children) : a \in A}
    IN  IF more = A THEN A ELSE Reach(h, more)

\* The addresses reached from those of the sequence todo, each once, in the
\* order in which a walk from todo, children first, comes to them.
RECURSIVE Walk(_, _, _)
Walk(h, todo, seen) ==
    IF todo = <<>> THEN seen
    ELSE IF \E k \in 1..Len(seen) : seen[k] = Head(todo)
    THEN Walk(h, Tail(todo), seen)
    ELSE Walk(h, h[Head(todo)].Children \o Tail(todo), Append(seen, Head(todo)))

\* The ids of a map in a fixed order.
RECURSIVE Listed(_, _, _)
Listed(blocks, ids, k) ==
    IF k > Len(ids) THEN <<>>
    ELSE IF ids[k] \in DOMAIN blocks
    THEN <<blocks[ids[k]]>> \o Listed(blocks, ids, k + 1)
    ELSE Listed(blocks, ids, k + 1)

IDsInOrder == CHOOSE o \in Orders(BlockIDs) : TRUE

\* The garbage collector, and the heap up to the names of the addresses.
\* Which address an object has cannot be observed by the program (pointers
\* are only compared for equality), so the objects that are still reached
\* from the caller's snapshot, the baseline and the change list are numbered
\* in the order in which they are reached, and every other address is free.
Settle(h, heldBlocks, retainedBlocks, list) ==
    LET roots == Listed(heldBlocks, IDsInOrder, 1) \o Listed(retainedBlocks, IDsInOrder, 1)
                     \o [k \in 1..Len(list) |-> list[k].Block]
        live == Walk(h, roots, <<>>)
        To(a) == CHOOSE n \in 1..Len(live) : live[n] = a
        Moved(block) == [block EXCEPT !.Children = [i \in 1..Len(block.Children) |->
                                                      To(block.Children[i])]]
    IN  [heap |-> [n \in Addrs |-> IF n <= Len(live) THEN Moved(h[live[n]]) ELSE Free],
         held |-> [id \in DOMAIN heldBlocks |-> To(heldBlocks[id])],
         retained |-> [id \in DOMAIN retainedBlocks |-> To(retainedBlocks[id])],
         returned |-> [k \in 1..Len(list) |-> [list[k] EXCEPT !.Block = To(list[k].Block)]]]

\* The block stored at a, with its children in place of their addresses.
RECURSIVE ValueAt(_, _)
ValueAt(h, a) ==
    [h[a] EXCEPT !.Children = [i \in 1..Len(h[a].Children) |-> ValueAt(h, h[a].Children[i])]]

ValueOf(h, blocks) == [id \in DOMAIN blocks |-> ValueAt(h, blocks[id])]

\* The parser's output put on the heap: every block and every child is a new
\* object.
RECURSIVE storeBlock(_, _)
RECURSIVE storeChildren(_, _, _, _)
storeBlock(h, block) ==
    LET at == Fresh(h)
        kids == storeChildren([h EXCEPT ![at] = [block EXCEPT !.Children = <<>>]],
                              block.Children, 1, <<>>)
    IN  [heap |-> [kids.heap EXCEPT ![at].Children = kids.addrs], addr |-> at]
storeChildren(h, children, i, acc) ==
    IF i > Len(children) THEN [heap |-> h, addrs |-> acc]
    ELSE LET c == storeBlock(h, children[i])
         IN  storeChildren(c.heap, children, i + 1, Append(acc, c.addr))

RECURSIVE storeBlocks(_, _, _)
storeBlocks(h, blocks, stored) ==
    IF DOMAIN stored = DOMAIN blocks THEN [heap |-> h, blocks |-> stored]
    ELSE LET id == CHOOSE x \in DOMAIN blocks \ DOMAIN stored : TRUE
             c == storeBlock(h, blocks[id])
         IN  storeBlocks(c.heap, blocks,
                         [x \in DOMAIN stored \cup {id} |-> IF x = id THEN c.addr ELSE stored[x]])

\* A mutant of copyBlockAt: the copy shares the children of the original.
copyBlockShared(h, a) ==
    LET at == Fresh(h)
    IN  [heap |-> [h EXCEPT ![at] = h[a]], addr |-> at]

\* copyBlock on pointers: `copied := &models.Block{...}` is a new object with
\* the six fields copied and Children nil; when the block has children,
\* copied.Children is a new slice of copies of the children.
RECURSIVE copyBlockAt(_, _)
RECURSIVE copyChildrenAt(_, _, _, _)
copyBlockAt(h, a) ==
    LET block == h[a]
        at == Fresh(h)
        copied == [block EXCEPT !.Children = <<>>]
        kids == copyChildrenAt([h EXCEPT ![at] = copied], block.Children, 1, <<>>)
    IN  IF Len(block.Children) > 0
        THEN [heap |-> [kids.heap EXCEPT ![at].Children = kids.addrs], addr |-> at]
        ELSE [heap |-> [h EXCEPT ![at] = copied], addr |-> at]
copyChildrenAt(h, children, i, acc) ==
    IF i > Len(children) THEN [heap |-> h, addrs |-> acc]
    ELSE LET c == copyBlockAt(h, children[i])
         IN  copyChildrenAt(c.heap, children, i + 1, Append(acc, c.addr))

\* copyBlocks on pointers.  The order of the range decides only which
\* address a copy gets.
RECURSIVE copyBlocksAt(_, _, _)
copyBlocksAt(h, blocks, copied) ==
    IF DOMAIN copied = DOMAIN blocks THEN [heap |-> h, blocks |-> copied]
    ELSE LET id == CHOOSE x \in DOMAIN blocks \ DOMAIN copied : TRUE
             c == copyBlockAt(h, blocks[id])
         IN  copyBlocksAt(c.heap, blocks,
                          [x \in DOMAIN copied \cup {id} |-> IF x = id THEN c.addr ELSE copied[x]])

\* The blocks of a map as the loops of ComputeDiff read them through their
\* pointers: the fields of each object, with the pointer itself as At.
Pointed(h, blocks) ==
    [id \in DOMAIN blocks |->
        [At |-> blocks[id], Type |-> h[blocks[id]].Type, Level |-> h[blocks[id]].Level,
         Content |-> h[blocks[id]].Content, HTML |-> h[blocks[id]].HTML]]

\* The pointers the caller holds: its snapshot and the blocks of the change
\* list it was returned.
HeldAddrs == AddrsOf(held) \cup {returned[k].Block : k \in 1..Len(returned)}

HeapIdle ==
    /\ heap = EmptyHeap
    /\ held = NoBlocks
    /\ retained = NoBlocks
    /\ returned = <<>>
    /\ retainedValue = EmptySnapshot
    /\ heapPc = "off"

\* NewBlockDiffer: previousBlocks is an empty map.
HeapInit ==
    /\ heap = EmptyHeap
    /\ held = NoBlocks
    /\ retained = NoBlocks
    /\ returned = <<>>
    /\ retainedValue = EmptySnapshot
    /\ heapPc = "fresh"

\* The caller obtains a new snapshot, of new objects, and lets go of the
\* snapshot and the change list it had.
Build ==
    /\ heapPc \in {"fresh", "done", "mutated"}
    /\ \E bodies \in HeapSnapshots :
          LET kept == Settle(heap, NoBlocks, retained, <<>>)
              stored == storeBlocks(kept.heap, Keyed(bodies), NoBlocks)
              now == Settle(stored.heap, stored.blocks, kept.retained, <<>>)
          IN  /\ heap' = now.heap
              /\ held' = now.held
              /\ retained' = now.retained
              /\ returned' = now.returned
    /\ heapPc' = "built"
    /\ UNCHANGED retainedValue

\* d.ComputeDiff(newBlocks) with newBlocks the caller's snapshot: the two
\* loops read the blocks through their pointers and put the pointers in the
\* change list, then previousBlocks becomes copyBlocks(newBlocks).
ComputeDiffAt ==
    /\ heapPc \in {"built", "done", "mutated"}
    /\ \E orderNew \in Orders(DOMAIN held), orderOld \in Orders(DOMAIN retained) :
          LET found == ComputeDiffChanges(Pointed(heap, retained), Pointed(heap, held),
                                          orderNew, orderOld)
              out == [k \in 1..Len(found) |->
                         BlockChange(found[k].Type, found[k].BlockID, found[k].Block.At)]
              copy == copyBlocksAt(heap, held, NoBlocks)
              now == Settle(copy.heap, held, copy.blocks, out)
          IN  /\ heap' = now.heap
              /\ held' = now.held
              /\ retained' = now.retained
              /\ returned' = now.returned
    /\ retainedValue' = ValueOf(heap, held)
    /\ heapPc' = "done"

\* What a caller may write to a block it holds a pointer to.
Writes(block) ==
    {[block EXCEPT !.Content = "w"], [block EXCEPT !.Children = <<>>]}

\* The caller writes to a block of its snapshot, to a child of one, or to a
\* block of the change list.
Mutate ==
    /\ heapPc \in {"done", "mutated"}
    /\ \E a \in Reach(heap, HeldAddrs) :
       \E written \in Writes(heap[a]) \ {heap[a]} :
          LET now == Settle([heap EXCEPT ![a] = written], held, retained, returned)
          IN  /\ heap' = now.heap
              /\ held' = now.held
              /\ retained' = now.retained
              /\ returned' = now.returned
    /\ heapPc' = "mutated"
    /\ UNCHANGED retainedValue

--------------------------------------------------------------------------
(* Specifications *)

InitLine == LineInit /\ LoopOff /\ BlockFresh /\ ClassifyIdle /\ HubInit /\ HeapIdle /\ RunIdle
NextLine == ComputeLineDiffCall /\ UNCHANGED <<loopVars, blockVars, classifyVars, hubVars, heapVars, runVars>>
SpecLine == InitLine /\ [][NextLine]_vars

InitBlock == LineIdle /\ LoopOff /\ BlockFresh /\ ClassifyIdle /\ HubInit /\ HeapIdle /\ RunIdle
NextBlock == ComputeDiff /\ UNCHANGED <<lineVars, loopVars, classifyVars, hubVars, heapVars, runVars>>
SpecBlock == InitBlock /\ [][NextBlock]_vars

InitClassify == LineIdle /\ LoopOff /\ BlockFresh /\ ClassifyInit /\ HubInit /\ HeapIdle /\ RunIdle
NextClassify ==
    \/ DetectNotionSyntaxCall /\ UNCHANGED <<lineVars, loopVars, blockVars, hubVars, heapVars, runVars>>
    \/ ParseLine /\ UNCHANGED <<lineVars, loopVars, blockVars, hubVars, heapVars, runVars>>
    \/ ParseCall /\ UNCHANGED <<lineVars, loopVars, blockVars, hubVars, heapVars, runVars>>
SpecClassify == InitClassify /\ [][NextClassify]_vars

InitHub == LineIdle /\ LoopOff /\ BlockFresh /\ ClassifyIdle /\ HubInit /\ HeapIdle /\ RunIdle
HubStep ==
    \/ \E c \in Clients : Register(c)
    \/ \E c \in Clients : Unregister(c)
    \/ BroadcastAll
    \/ \E c \in Clients : HandleInvalid(c)
    \/ \E c \in Clients : HandleParse(c)
    \/ \E c \in Clients, d \in Docs \cup {NoDoc} : HandleParseIncremental(c, d)
    \/ \E c \in Clients : HandleParseIncrementalError(c)
    \/ \E c \in Clients, d \in Docs : HandleSubscribe(c, d)
    \/ \E c \in Clients, d \in Docs : HandleUnsubscribe(c, d)
    \/ \E c \in Clients : WritePump(c)
    \/ \E c \in Clients : ConcurrentMapAccess(c)
NextHub == HubStep /\ UNCHANGED <<lineVars, loopVars, blockVars, classifyVars, heapVars, runVars>>
SpecHub == InitHub /\ [][NextHub]_vars

InitLoop == LineIdle /\ LoopInit /\ BlockFresh /\ ClassifyIdle /\ HubInit /\ HeapIdle /\ RunIdle
LoopStep ==
    \/ Iteration /\ UNCHANGED <<lineVars, blockVars, classifyVars, hubVars, heapVars, runVars>>
    \/ Return /\ UNCHANGED <<lineVars, blockVars, classifyVars, hubVars, heapVars, runVars>>
NextLoop ==
    \/ Hold /\ UNCHANGED <<blockVars, classifyVars, hubVars, heapVars, runVars>>
    \/ Enter /\ UNCHANGED <<blockVars, classifyVars, hubVars, heapVars, runVars>>
    \/ LoopStep
SpecLoop == InitLoop /\ [][NextLoop]_vars

\* The loop runs on its goroutine without waiting for anything: an
\* iteration or the return that can be taken is taken.
SpecLoopFair == SpecLoop /\ WF_vars(LoopStep)

InitHeap == LineIdle /\ LoopOff /\ BlockFresh /\ ClassifyIdle /\ HubInit /\ HeapInit /\ RunIdle
NextHeap ==
    \/ Build /\ UNCHANGED <<lineVars, loopVars, blockVars, classifyVars, hubVars, runVars>>
    \/ ComputeDiffAt /\ UNCHANGED <<lineVars, loopVars, blockVars, classifyVars, hubVars, runVars>>
    \/ Mutate /\ UNCHANGED <<lineVars, loopVars, blockVars, classifyVars, hubVars, runVars>>
SpecHeap == InitHeap /\ [][NextHeap]_vars

InitRun == LineIdle /\ LoopOff /\ BlockFresh /\ ClassifyIdle /\ HubInit /\ HeapIdle /\ RunIdle
RunStep(r) == Serve(r) /\ UNCHANGED <<lineVars, loopVars, blockVars, classifyVars, heapVars>>
NextRun ==
    \/ \E r \in Requests :
          Submit(r) /\ UNCHANGED <<lineVars, loopVars, blockVars, classifyVars, heapVars>>
    \/ \E r \in Requests : RunStep(r)
    \/ \E c \in Clients :
          Receive(c) /\ UNCHANGED <<lineVars, loopVars, blockVars, classifyVars, heapVars>>
    \/ \E c \in Clients :
          Drain(c) /\ UNCHANGED <<lineVars, loopVars, blockVars, classifyVars, heapVars>>
SpecRun == InitRun /\ [][NextRun]_vars

\* Run is a goroutine of its own and is scheduled fairly, and its select
\* chooses at random among the channels that are ready: a request that
\* waits is received.  Nothing is assumed of the readers and the writers.
SpecRunFair == SpecRun /\ \A r \in Requests : WF_vars(RunStep(r))

--------------------------------------------------------------------------
(* Claims about the line differ *)

IsNewSide(c) == c.Type \in {"added", "unchanged"}
IsOldSide(c) == c.Type \in {"removed", "unchanged"}

NewSide == SelectSeq(lineChanges, IsNewSide)
OldSide == SelectSeq(lineChanges, IsOldSide)

Contents(cs) == [k \in 1..Len(cs) |-> cs[k].Content]

\* The entries of cs are numbered 1, 2, ... in order: reading them by
\* increasing line number is reading them in script order, no number is
\* missing and none is repeated.
NumberedInOrder(cs) == \A k \in 1..Len(cs) : cs[k].LineNum = k

\* C1: after ComputeLineDiff(old, new) the added and unchanged entries carry
\* the line numbers 1..n in increasing order and their contents are the
\* lines of new, so that joining them with "\n" gives back new exactly.
C1_NewSideReconstructsNew ==
    linePc = "done" =>
        /\ NumberedInOrder(NewSide)
        /\ Contents(NewSide) = Split(newContent)
        /\ Join(Contents(NewSide)) = newContent

\* C1 witness: a call whose script mixes all three kinds of entry.
C1_Witness ==
    /\ linePc = "done"
    /\ \E k \in 1..Len(lineChanges) : lineChanges[k].Type = "added"
    /\ \E k \in 1..Len(lineChanges) : lineChanges[k].Type = "unchanged"
    /\ \E k \in 1..Len(lineChanges) : lineChanges[k].Type = "removed"
    /\ Len(NewSide) >= 2

\* C2 as stated: the removed and unchanged entries carry their old line
\* numbers 1..m in order (so that ordering by the number in the entry is
\* ordering by old line) and their contents are the lines of old.
C2_OldNumberInEntry ==
    linePc = "done" =>
        /\ NumberedInOrder(OldSide)
        /\ Contents(OldSide) = Split(oldContent)

\* The number of new-side entries among the first k entries of the script.
NewIndexAt(k) == Len(SelectSeq(SubSeq(lineChanges, 1, k), IsNewSide))
\* The number of old-side entries among the first k entries of the script.
OldIndexAt(k) == Len(SelectSeq(SubSeq(lineChanges, 1, k), IsOldSide))

\* C2 amended: read in script order, the removed and unchanged entries have
\* the lines of old as contents (joining them gives old); a removed entry
\* carries its old line number, an unchanged entry carries its new line
\* number, and its old line number is its rank among the removed and
\* unchanged entries of the script.
C2_OldSideReconstructsOld ==
    linePc = "done" =>
        /\ Contents(OldSide) = Split(oldContent)
        /\ Join(Contents(OldSide)) = oldContent
        /\ \A k \in 1..Len(lineChanges) :
              /\ lineChanges[k].Type = "removed" => lineChanges[k].LineNum = OldIndexAt(k)
              /\ lineChanges[k].Type = "unchanged" =>
                    /\ lineChanges[k].LineNum = NewIndexAt(k)
                    /\ Split(oldContent)[OldIndexAt(k)] = lineChanges[k].Content

\* C2 witness: an unchanged entry whose old line number differs from the
\* number it carries, next to a removed entry.
C2_Witness ==
    /\ linePc = "done"
    /\ \E k \in 1..Len(lineChanges) :
          /\ lineChanges[k].Type = "unchanged"
          /\ lineChanges[k].LineNum # OldIndexAt(k)
    /\ \E k \in 1..Len(lineChanges) : lineChanges[k].Type = "removed"

--------------------------------------------------------------------------
(* Claims about the block differ *)

EntryIDs(kind) == {changes[k].BlockID : k \in {n \in 1..Len(changes) : changes[n].Type = kind}}

\* C3: when ComputeDiff is called with a snapshot identical to the one of
\* the call before it, whatever calls came earlier, it returns an empty
\* change list.
C3_SecondCallEmpty ==
    (diffPc = "done" /\ prevArg # NoCall /\ diffArg = prevArg) => changes = <<>>

\* C3 witness: the same two-block snapshot, with markup and a child block,
\* has been handed to ComputeDiff twice in a row.
C3_Witness ==
    /\ diffPc = "done"
    /\ prevArg # NoCall
    /\ diffArg = prevArg
    /\ DOMAIN diffArg = BlockIDs
    /\ \E id \in BlockIDs : diffArg[id].Children # <<>>
    /\ changes = <<>>

\* C4: with P the snapshot the detector held and N the new one, the added
\* entries are for exactly the ids of N not in P, the modified entries for
\* exactly the ids in both whose hashes differ, the removed entries for
\* exactly the ids of P not in N, and there is no other entry: an id in both
\* with equal hashes has none, and no id has two.
C4_EntriesPartitionIds ==
    diffPc = "done" =>
        LET P == diffPrev
            N == diffArg
        IN  /\ EntryIDs("added") = DOMAIN N \ DOMAIN P
            /\ EntryIDs("modified") =
                  {id \in DOMAIN N \cap DOMAIN P :
                      computeBlockHash(P[id]) # computeBlockHash(N[id])}
            /\ EntryIDs("removed") = DOMAIN P \ DOMAIN N
            /\ \A k \in 1..Len(changes) : changes[k].Type \in {"added", "modified", "removed"}
            /\ \A j, k \in 1..Len(changes) : changes[j].BlockID = changes[k].BlockID => j = k

\* C4 witness: the scenario P = {b1}, N = {b1, b2} with b1 the same block:
\* one added entry for b2 and nothing for b1.
C4_Witness ==
    /\ diffPc = "done"
    /\ DOMAIN diffPrev = {"b1"}
    /\ DOMAIN diffArg = {"b1", "b2"}
    /\ diffArg["b1"] = diffPrev["b1"]
    /\ Len(changes) = 1
    /\ changes[1].Type = "added"
    /\ changes[1].BlockID = "b2"

SemanticFields == {"Type", "Content", "Level", "HTML"}

\* C5 as stated: an id in both snapshots has a modified entry if and only if
\* the two blocks differ in type, content, level or markup.
C5_ModifiedIffFieldDiffers ==
    diffPc = "done" =>
        \A id \in DOMAIN diffArg \cap DOMAIN diffPrev :
            (id \in EntryIDs("modified")) <=>
                (\E f \in SemanticFields : diffPrev[id][f] # diffArg[id][f])

\* C6: on a detector holding no block, ComputeDiff(N) returns one added
\* entry per block of N, carrying that block, and nothing else (so a
\* non-empty N gives a non-empty list); ComputeDiff of the empty snapshot
\* returns one removed entry per block the detector held, and nothing else.
C6_FirstAndEmptyCalls ==
    diffPc = "done" =>
        /\ diffPrev = EmptySnapshot =>
              /\ Len(changes) = Cardinality(DOMAIN diffArg)
              /\ EntryIDs("added") = DOMAIN diffArg
              /\ \A k \in 1..Len(changes) :
                    /\ changes[k].Type = "added"
                    /\ changes[k].Block = diffArg[changes[k].BlockID]
              /\ (DOMAIN diffArg # {} => changes # <<>>)
        /\ diffArg = EmptySnapshot =>
              /\ Len(changes) = Cardinality(DOMAIN diffPrev)
              /\ EntryIDs("removed") = DOMAIN diffPrev
              /\ \A k \in 1..Len(changes) :
                    /\ changes[k].Type = "removed"
                    /\ changes[k].Block = diffPrev[changes[k].BlockID]

\* C6 witness: a detector that held two blocks, itself filled by a first
\* call on a fresh detector, is handed the empty snapshot.
C6_Witness ==
    /\ diffPc = "done"
    /\ diffArg = EmptySnapshot
    /\ prevArg # NoCall
    /\ DOMAIN diffPrev = BlockIDs
    /\ Len(changes) = 2

--------------------------------------------------------------------------
(* Claims about the classifier and ParseLine *)

RECURSIVE LeadingHashes(_)
LeadingHashes(t) == IF t # <<>> /\ Head(t) = "#" THEN 1 + LeadingHashes(Tail(t)) ELSE 0

HeadingNames == <<"h1", "h2", "h3", "h4", "h5", "h6">>

StartsWithCheckbox(t) ==
    /\ Len(t) >= 5
    /\ t[1] = "-" /\ t[2] = " " /\ t[3] = "[" /\ t[4] \in {" ", "x"} /\ t[5] = "]"

\* The rules of the classifier, each stated on the trimmed line.
IsHeading(t) ==
    LET n == LeadingHashes(t) IN n >= 1 /\ n <= 6 /\ Len(t) > n /\ t[n + 1] = " "
IsUnordered(t) == Len(t) >= 2 /\ t[1] \in {"-", "*", "+"} /\ t[2] = " "
IsOrdered(t) ==
    /\ Len(t) >= 1
    /\ t[1] \in Digits
    /\ \E k \in 1..(Len(t) - 1) : t[k] = "." /\ t[k + 1] = " "
IsFence(t) == Len(t) >= 3 /\ t[1] = Tick /\ t[2] = Tick /\ t[3] = Tick
IsQuote(t) == Len(t) >= 2 /\ t[1] = ">" /\ t[2] = " "

\* The category of the first rule that matches, in the fixed order.
FirstRule(t) ==
    IF IsHeading(t) THEN HeadingNames[LeadingHashes(t)]
    ELSE IF StartsWithCheckbox(t) THEN "checkbox"
    ELSE IF IsUnordered(t) THEN "unordered_list"
    ELSE IF IsOrdered(t) THEN "ordered_list"
    ELSE IF IsFence(t) THEN "code_block"
    ELSE IF IsQuote(t) THEN "blockquote"
    ELSE "paragraph"

Headings == {HeadingNames[n] : n \in 1..6}

\* C7: DetectNotionSyntax returns the category of the first rule the trimmed
\* line matches, in the order heading (1 to 6 '#' then a space), checkbox,
\* unordered list, ordered list, fenced code, blockquote, paragraph; a line
\* that starts with "- [ ]" or "- [x]" is a checkbox, never an unordered
\* list, and a line with 7 or more leading '#' is not a heading.
C7_FirstMatchingRule ==
    classifyPc = "classified" =>
        LET t == TrimSpace(line) IN
        /\ syntax = FirstRule(t)
        /\ StartsWithCheckbox(t) => syntax = "checkbox"
        /\ LeadingHashes(t) >= 7 => syntax \notin Headings

\* C7 witness: an indented line that starts with a checkbox marker, which
\* the unordered list rule matches too, has been classified.
C7_Witness ==
    /\ classifyPc = "classified"
    /\ line # TrimSpace(line)
    /\ StartsWithCheckbox(TrimSpace(line))
    /\ IsUnordered(TrimSpace(line))
    /\ syntax = "checkbox"

AllWhiteSpace(l) == \A k \in 1..Len(l) : l[k] \in WhiteSpace

\* C8: ParseLine(line, n) returns nil exactly when the line is empty or all
\* white space; otherwise it returns a block whose Position.Line is n and
\* whose type is the category DetectNotionSyntax gives the line whenever
\* that category is not paragraph.
C8_ParseLineBlock ==
    classifyPc = "parsed" =>
        /\ (lineBlock = NilBlock) <=> AllWhiteSpace(line)
        /\ lineBlock # NilBlock =>
              /\ lineBlock.Position.Line = lineNumber
              /\ DetectNotionSyntax(line) # "paragraph" =>
                    lineBlock.Type = DetectNotionSyntax(line)

\* C8 witness: a heading line was parsed while goldmark offered a usable
\* block of the same type, and the block kept the detected type.
C8_Witness ==
    /\ classifyPc = "parsed"
    /\ lineBlock # NilBlock
    /\ DetectNotionSyntax(line) = "h1"
    /\ lineBlock.HTML = "<h1>"
    /\ lineBlock.Type = "h1"
    /\ lineBlock.Position.Line = MaxLineNumber

--------------------------------------------------------------------------
(* Claims about the hub *)

\* The clients a dispatch to documentID reaches in hub H: the hub keeps no
\* index by document, it looks through the live clients' own subscriptions.
SubscribersIn(H, documentID) == {c \in H.clients : documentID \in H.subs[c]}

Subscribers(documentID) == SubscribersIn(HubNow, documentID)

IsFull(H, c) == Len(H.send[c]) = SendBufferSize

\* The slow consumers of a dispatch: live and subscribed when
\* broadcastToDocument began, with a full buffer.
SlowConsumers == {c \in SubscribersIn(last.mid, last.doc) : IsFull(last.mid, c)}

\* What C9 says of everything but the client's own subscriptions: a slow
\* consumer leaves the live set, its channel is closed with its content
\* kept, no document reaches it any more, and every other subscriber with
\* room has the payload appended in the same step.
DroppedAndOthersServed(c) ==
    /\ c \notin clients
    /\ closed[c]
    /\ send[c] = last.mid.send[c]
    /\ \A d \in Docs : c \notin Subscribers(d)
    /\ \A o \in SubscribersIn(last.mid, last.doc) \ {c} :
          ~IsFull(last.mid, o) =>
              /\ o \in clients
              /\ ~closed[o]
              /\ send[o] = Append(last.mid.send[o], "parsed_incremental")

C10_DispatchFrame ==
    last.op = "dispatch" =>
        LET targets == SubscribersIn(last.mid, last.doc) IN
        /\ last.attempted = targets
        /\ \A c \in targets :
              IF IsFull(last.mid, c)
              THEN send[c] = last.mid.send[c] /\ closed[c] /\ c \notin clients
              ELSE send[c] = Append(last.mid.send[c], "parsed_incremental")
                   /\ ~closed[c] /\ c \in clients
        /\ \A c \in Clients \ targets :
              /\ send[c] = last.mid.send[c]
              /\ closed[c] = last.mid.closed[c]
              /\ (c \in clients) = (c \in last.mid.clients)
              /\ subscribedDocuments[c] = last.mid.subs[c]
        /\ targets = {} => HubNow = last.mid /\ ~crashed

\* A dispatch to d1 reaches the subscriber c2 and leaves alone c1, which is
\* live but subscribed to d2 only and holds an earlier message; a dispatch to
\* a document nobody subscribes to is covered by C10_WitnessNoSubscriber.
C10_Witness ==
    /\ last.op = "dispatch"
    /\ last.doc = "d1"
    /\ last.attempted = {"c2"}
    /\ last.mid.clients = {"c1", "c2"}
    /\ subscribedDocuments["c1"] = {"d2"}
    /\ send["c1"] = <<"parsed_incremental">>
    /\ send["c2"] = <<"parsed_incremental">>
    /\ clients = {"c1", "c2"}
--------------------------------------------------------------------------
(* Claims about the hub's goroutines *)

\* C11 as stated: under every interleaving no channel is closed twice and
\* nothing is sent on a closed channel (either panics, which `crashed`
\* records), and an unregister request for a client that is no longer live
\* changes nothing.
C11_NoPanicAndUnregisterGuarded ==
    /\ last.op # "race" => ~crashed
    /\ (last.op = "unregister" /\ last.client \notin last.pre.clients) =>
           HubNow = last.pre

\* The operations that Run performs; every other one is a handler that
\* HandleMessage runs on its caller's goroutine.
CoordinatorOps == {"init", "register", "unregister", "broadcast"}

HandlerOps ==
    {"invalid", "parse", "parse_incremental", "parse_incremental_error",
     "dispatch", "subscribe", "unsubscribe"}

\* C12 as stated: a handler of an inbound message writes neither the live
\* set nor a subscription set and closes no channel, and no two goroutines
\* ever touch the live set at once.
C12_OnlyCoordinatorWrites ==
    /\ last.op \in HandlerOps =>
           /\ clients = last.pre.clients
           /\ subscribedDocuments = last.pre.subs
           /\ closed = last.pre.closed
    /\ last.op # "race"
--------------------------------------------------------------------------
(* Claims about the hub's operations *)

\* Everything about client c is as it was in hub H.
SameClient(H, c) ==
    /\ send[c] = H.send[c]
    /\ closed[c] = H.closed[c]
    /\ (c \in clients) = (c \in H.clients)
    /\ subscribedDocuments[c] = H.subs[c]

C13_WitnessRoom ==
    /\ last.op = "register"
    /\ last.client = "c1"
    /\ clients = {"c1"}
    /\ send["c1"] = <<"connected">>

IsSubscription == last.op \in {"subscribe", "unsubscribe"}

\* The client's subscriptions after the request that `last` records.
SubscriptionsAfter ==
    IF last.op = "subscribe"
    THEN last.pre.subs[last.client] \cup {last.doc}
    ELSE last.pre.subs[last.client] \ {last.doc}

Answer == IF last.op = "subscribe" THEN "subscribed" ELSE "unsubscribed"

\* The request repeats the one before it: the document is already in
\* (subscribe), respectively already out of (unsubscribe), the client's set.
IsRepeat == SubscriptionsAfter = last.pre.subs[last.client]

\* C14 as stated: a subscribe or unsubscribe sets the client's own set, a
\* repeated one changes neither that set nor the document's subscribers,
\* afterwards the document is in the client's set exactly when the client is
\* among the document's subscribers, and the request is answered with
\* "subscribed", respectively "unsubscribed".
C14_IdempotentAndAnswered ==
    IsSubscription =>
        LET c == last.client
            d == last.doc
        IN  /\ subscribedDocuments[c] = SubscriptionsAfter
            /\ IsRepeat => Subscribers(d) = SubscribersIn(last.pre, d)
            /\ (d \in subscribedDocuments[c]) = (c \in Subscribers(d))
            /\ send[c] = Append(last.pre.send[c], Answer)

\* C14, amended: the request sets the client's own set, so that a repeated
\* one leaves every subscription set as it was; for a client that is live
\* afterwards the document is in its set exactly when a dispatch to the
\* document reaches it.  The answer is enqueued only when the client's
\* buffer has room: with a full buffer the client is closed and removed from
\* the live set instead, its set changed all the same, and on a channel
\* that is already closed the send panics.
C14_SetIdempotentAnswerIfRoom ==
    IsSubscription =>
        LET c == last.client
            d == last.doc
        IN  /\ subscribedDocuments[c] = SubscriptionsAfter
            /\ \A o \in Clients \ {c} : SameClient(last.pre, o)
            /\ IsRepeat => subscribedDocuments = last.pre.subs
            /\ c \in clients =>
                   (d \in subscribedDocuments[c]) = (c \in Subscribers(d))
            /\ IF last.pre.closed[c]
               THEN crashed /\ send[c] = last.pre.send[c]
               ELSE /\ ~crashed
                    /\ IF IsFull(last.pre, c)
                       THEN /\ closed[c]
                            /\ c \notin clients
                            /\ send[c] = last.pre.send[c]
                       ELSE /\ ~closed[c]
                            /\ (c \in clients) = (c \in last.pre.clients)
                            /\ send[c] = Append(last.pre.send[c], Answer)

\* c1, live and already subscribed to d1 next to the subscriber c2,
\* subscribes to d1 again and is answered.
C14_Witness ==
    /\ last.op = "subscribe"
    /\ last.client = "c1"
    /\ last.doc = "d1"
    /\ IsRepeat
    /\ clients = {"c1", "c2"}
    /\ Subscribers("d1") = {"c1", "c2"}
    /\ send["c1"] = <<"subscribed">>

\* c1 unsubscribes from d1 a second time with a full buffer: its set stays
\* as it was and c1 is dropped.
C14_WitnessDropped ==
    /\ last.op = "unsubscribe"
    /\ last.client = "c1"
    /\ IsRepeat
    /\ "c1" \in last.pre.clients
    /\ "c1" \notin clients
    /\ subscribedDocuments["c1"] = {"d2"}

\* The requests that HandleMessage and its handlers refuse: undecodable,
\* of an unknown type, or lacking the required field.
IsRefused == last.op = "invalid"

\* C15 as stated: a refused message puts exactly one "error" into the buffer
\* of the client it came from and nothing into any other, changes no
\* subscription, and goes no further than that client.
C15_ScopedError ==
    IsRefused =>
        LET c == last.client IN
        /\ send[c] = Append(last.pre.send[c], "error")
        /\ \A o \in Clients \ {c} : SameClient(last.pre, o)
        /\ subscribedDocuments = last.pre.subs
        /\ ~crashed

\* C16 as stated: a parse_incremental that names a document and comes from
\* a client with room in its buffer enqueues the result once for that
\* client, which stays as live as it was, and once for every other live
\* subscriber of the document; the fan-out does not come back to the
\* client, subscribed or not.
C16_OriginatorOnce ==
    (last.op = "dispatch" /\ ~last.pre.closed[last.client]
                          /\ ~IsFull(last.pre, last.client)) =>
        LET c == last.client IN
        /\ send[c] = Append(last.pre.send[c], "parsed_incremental")
        /\ ~closed[c]
        /\ (c \in clients) = (c \in last.pre.clients)
        /\ last.attempted = SubscribersIn(last.pre, last.doc) \ {c}

\* C17 as stated: a refused message or an unsubscribe never closes the
\* channel of the client it came from and never removes it from the live
\* set, however full its buffer is.
C17_NeverDropsOriginator ==
    (IsRefused \/ last.op = "unsubscribe") =>
        /\ closed[last.client] = last.pre.closed[last.client]
        /\ (last.client \in clients) = (last.client \in last.pre.clients)

\* What the handler that `last` records answers to a refused message or an
\* unsubscribe.
Reply == IF last.op = "unsubscribe" THEN "unsubscribed" ELSE "error"

\* C17, amended: a refused message or an unsubscribe leaves the client's
\* channel open and its liveness as it was when the buffer has room for the
\* reply; when the buffer is full the channel is closed and the client
\* removed from the live set with nothing enqueued; a channel already
\* closed stays closed and the client stays out of the live set.
C17_DropsOriginatorOnlyWhenFull ==
    (IsRefused \/ last.op = "unsubscribe") =>
        LET c == last.client IN
        IF last.pre.closed[c]
        THEN closed[c] /\ c \notin clients /\ send[c] = last.pre.send[c]
        ELSE IF IsFull(last.pre, c)
             THEN closed[c] /\ c \notin clients /\ send[c] = last.pre.send[c]
             ELSE /\ ~closed[c]
                  /\ (c \in clients) = (c \in last.pre.clients)
                  /\ send[c] = Append(last.pre.send[c], Reply)

\* A refused message from c1, live with a full buffer, closes and removes
\* it, while c2 stays live.
C17_Witness ==
    /\ IsRefused
    /\ last.client = "c1"
    /\ last.pre.clients = {"c1", "c2"}
    /\ IsFull(last.pre, "c1")
    /\ closed["c1"]
    /\ clients = {"c2"}

\* An unsubscribe from c1, live with room, is answered and c1 stays live.
C17_WitnessRoom ==
    /\ last.op = "unsubscribe"
    /\ last.client = "c1"
    /\ "c1" \in clients
    /\ send["c1"] = <<"unsubscribed">>

\* C18: the broadcast case of Run attempts an enqueue on every live client,
\* subscribed to anything or not.  A client with a full buffer is closed and
\* removed from the live set in that step, its buffer as it was; a client
\* with room stays live and has the payload appended once.  Clients that
\* were not live and all subscriptions are untouched, and nothing panics.
C18_BroadcastAll ==
    last.op = "broadcast" =>
        /\ last.attempted = last.pre.clients
        /\ \A c \in last.pre.clients :
              IF IsFull(last.pre, c)
              THEN c \notin clients /\ closed[c] /\ send[c] = last.pre.send[c]
              ELSE c \in clients /\ ~closed[c]
                   /\ send[c] = Append(last.pre.send[c], "broadcast")
        /\ \A c \in Clients \ last.pre.clients : SameClient(last.pre, c)
        /\ subscribedDocuments = last.pre.subs
        /\ ~crashed

\* A broadcast finds c1 live with room and without any subscription and c2
\* live, subscribed and full: c1 receives it, c2 is dropped.
C18_Witness ==
    /\ last.op = "broadcast"
    /\ last.pre.clients = {"c1", "c2"}
    /\ subscribedDocuments["c1"] = {}
    /\ subscribedDocuments["c2"] = {"d1"}
    /\ IsFull(last.pre, "c2")
    /\ send["c1"] = <<"broadcast">>
    /\ clients = {"c1"}
    /\ closed["c2"]
--------------------------------------------------------------------------
(* Further claims about the line differ *)

EntriesOf(kind) == {k \in 1..Len(lineChanges) : lineChanges[k].Type = kind}

\* C19 as stated: an empty text is an empty sequence of lines.  With both
\* texts empty the script is empty, with only old empty every entry is
\* added, with only new empty every entry is removed.
C19_EmptyTextIsNoLines ==
    linePc = "done" =>
        /\ (oldContent = <<>> /\ newContent = <<>>) => lineChanges = <<>>
        /\ (oldContent = <<>> /\ newContent # <<>>) =>
               EntriesOf("added") = 1..Len(lineChanges)
        /\ (oldContent # <<>> /\ newContent = <<>>) =>
               EntriesOf("removed") = 1..Len(lineChanges)

\* C20: with old and new the sequences of lines that ComputeLineDiff splits
\* its texts into, every entry's number is at least 1; an added or unchanged
\* entry's number is the position of its content in new, a removed entry's
\* number the position of its content in old; every position of new is the
\* number of exactly one added or unchanged entry, every position of old is
\* taken exactly once by a removed entry (by its number) or an unchanged
\* entry (by its rank on the old side); and the script has
\* Len(old) + Len(new) - (number of unchanged) entries.
C20_EntriesCoverBothSequences ==
    linePc = "done" =>
        LET old == Split(oldContent)
            new == Split(newContent)
            All == 1..Len(lineChanges)
            OldPos(k) == IF lineChanges[k].Type = "removed"
                         THEN lineChanges[k].LineNum ELSE OldIndexAt(k)
        IN  /\ \A k \in All :
                  LET e == lineChanges[k] IN
                  /\ e.LineNum >= 1
                  /\ IsNewSide(e) => /\ e.LineNum <= Len(new)
                                     /\ new[e.LineNum] = e.Content
                  /\ e.Type = "removed" => /\ e.LineNum <= Len(old)
                                           /\ old[e.LineNum] = e.Content
                  /\ e.Type = "unchanged" => old[OldIndexAt(k)] = e.Content
            /\ \A j \in 1..Len(new) :
                  Cardinality({k \in All : IsNewSide(lineChanges[k])
                                           /\ lineChanges[k].LineNum = j}) = 1
            /\ \A i \in 1..Len(old) :
                  Cardinality({k \in All : IsOldSide(lineChanges[k])
                                           /\ OldPos(k) = i}) = 1
            /\ Len(lineChanges) =
                   Len(old) + Len(new) - Cardinality(EntriesOf("unchanged"))

\* A script of four entries over two old and three new lines, with one
\* removed, two added and one unchanged entry.
C20_Witness ==
    /\ linePc = "done"
    /\ Len(Split(oldContent)) = 2
    /\ Len(Split(newContent)) = 3
    /\ Cardinality(EntriesOf("unchanged")) = 1
    /\ Cardinality(EntriesOf("removed")) = 1
    /\ Cardinality(EntriesOf("added")) = 2
    /\ lineChanges[1].Type = "removed"
--------------------------------------------------------------------------
(* Claims about MarkdownParser.Parse *)

\* C21: Parse of empty content returns a nil error and a response with
\* Success true, empty HTML and no blocks; Parse of non-empty content
\* returns either an error and no response, or a nil error and a response
\* with Success true, never an error together with a response.
C21_ParseResult ==
    classifyPc = "rendered" =>
        IF line = <<>>
        THEN /\ parseResult.err = NoError
             /\ parseResult.response = ParseResponse("", {})
        ELSE \/ /\ parseResult.err # NoError
                /\ parseResult.response = NilResponse
             \/ /\ parseResult.err = NoError
                /\ parseResult.response # NilResponse
                /\ parseResult.response.Success

\* Parse of the empty content has returned.
C21_Witness ==
    /\ classifyPc = "rendered"
    /\ line = <<>>
    /\ parseResult.err = NoError
    /\ parseResult.response.Blocks = {}

\* Parse of a non-empty line has returned an error.
C21_WitnessError ==
    /\ classifyPc = "rendered"
    /\ line # <<>>
    /\ parseResult.err # NoError
--------------------------------------------------------------------------
(* Claims about the backtracking loop of computeLCS *)

\* The last iteration was at a cell with i > 0 and j > 0 whose old line and
\* new line differ.
AtDifferingCell ==
    /\ branch.i > 0
    /\ branch.j > 0
    /\ OldLines[branch.i] # NewLines[branch.j]

\* C22: at a cell (i, j) with i > 0, j > 0 and differing lines the iteration
\* records added for new line j whenever table[i][j-1] >= table[i-1][j],
\* ties included, and removed for old line i only when table[i-1][j] is
\* strictly larger; and when old and new are one line each and differ, the
\* loop returns the removed entry followed by the added entry.
C22_TieGoesToAdded ==
    /\ AtDifferingCell =>
          LET left == Table[branch.i][branch.j - 1]
              up == Table[branch.i - 1][branch.j]
          IN  /\ left >= up =>
                    /\ branch.name = "added"
                    /\ Head(loopChanges) = LineChange("added", branch.j, NewLines[branch.j])
              /\ up > left =>
                    /\ branch.name = "removed"
                    /\ Head(loopChanges) = LineChange("removed", branch.i, OldLines[branch.i])
    /\ (loopPc = "returned" /\ Len(OldLines) = 1 /\ Len(NewLines) = 1
                            /\ OldLines[1] # NewLines[1]) =>
          loopChanges = << LineChange("removed", 1, OldLines[1]),
                           LineChange("added", 1, NewLines[1]) >>

\* The loop has returned for the one line "a" replaced by the one line "b".
C22_Witness ==
    /\ loopPc = "returned"
    /\ oldContent = <<"a">>
    /\ newContent = <<"b">>
    /\ Len(loopChanges) = 2
    /\ loopChanges[1].Type = "removed"
    /\ loopChanges[2].Type = "added"

\* An iteration at a differing cell where the value above is strictly
\* larger has recorded removed.
C22_WitnessRemoved ==
    /\ AtDifferingCell
    /\ Table[branch.i - 1][branch.j] > Table[branch.i][branch.j - 1]
    /\ branch.name = "removed"

\* What holds of the loop in every state: an iteration that has begun took
\* one of the three branches and left i + j strictly smaller than it found
\* it; at most oldLen + newLen iterations begin; the loop returns at (0, 0)
\* with what computeLCS returns.
LoopProgress ==
    /\ iterations > 0 =>
          /\ branch.name \in {"unchanged", "added", "removed"}
          /\ loopI + loopJ < branch.i + branch.j
    /\ loopI >= 0
    /\ loopJ >= 0
    /\ loopPc \in {"loop", "returned"} =>
          iterations + loopI + loopJ <= Len(OldLines) + Len(NewLines)
    /\ loopPc = "returned" =>
          /\ loopI = 0
          /\ loopJ = 0
          /\ loopChanges = computeLCS(OldLines, NewLines)

\* C27: the backtracking loop terminates for all inputs.  Every iteration
\* takes exactly one of the three branches and strictly decreases i + j, so
\* that the loop returns, at (0, 0), after at most oldLen + newLen
\* iterations.
C27_LoopTerminates ==
    /\ []LoopProgress
    /\ (loopPc = "loop") ~> (loopPc = "returned")

\* The loop has returned after as many iterations as both texts have lines,
\* having taken the added and the removed branch.
C27_Witness ==
    /\ loopPc = "returned"
    /\ iterations = Len(OldLines) + Len(NewLines)
    /\ iterations >= 4
    /\ \E k \in 1..Len(loopChanges) : loopChanges[k].Type = "added"
    /\ \E k \in 1..Len(loopChanges) : loopChanges[k].Type = "removed"
--------------------------------------------------------------------------
(* Claims about the script as a longest common subsequence *)

\* u is a subsequence of s: the elements of u occur in s in the same order.
RECURSIVE IsSubsequence(_, _)
IsSubsequence(u, s) ==
    IF u = <<>> THEN TRUE
    ELSE IF s = <<>> THEN FALSE
    ELSE IF Head(u) = Head(s) THEN IsSubsequence(Tail(u), Tail(s))
    ELSE IsSubsequence(u, Tail(s))

\* The elements of s at the positions in P, in the order of s.
RECURSIVE Pick(_, _, _)
Pick(s, P, k) ==
    IF k > Len(s) THEN <<>>
    ELSE IF k \in P THEN <<s[k]>> \o Pick(s, P, k + 1)
    ELSE Pick(s, P, k + 1)

\* The lengths of the common subsequences of a and b, by enumeration of the
\* subsequences of a.
CommonLengths(a, b) ==
    {Cardinality(P) : P \in {Q \in SUBSET (1..Len(a)) : IsSubsequence(Pick(a, Q, 1), b)}}

LongestCommon(a, b) ==
    CHOOSE n \in CommonLengths(a, b) : \A m \in CommonLengths(a, b) : m <= n

\* C23: the script has as many unchanged entries as a longest common
\* subsequence of old and new has lines; its unchanged entries, in the order
\* of the script, are a common subsequence of old and new; and it has
\* Len(old) + Len(new) - 2 * (that length) added and removed entries, the
\* fewest a script turning old into new by keeping a common subsequence can
\* have.
C23_UnchangedIsLongestCommon ==
    linePc = "done" =>
        LET old == Split(oldContent)
            new == Split(newContent)
            kept == Contents(SelectSeq(lineChanges, LAMBDA c : c.Type = "unchanged"))
            longest == LongestCommon(old, new)
        IN  /\ Len(kept) = longest
            /\ IsSubsequence(kept, old)
            /\ IsSubsequence(kept, new)
            /\ Cardinality(EntriesOf("added")) + Cardinality(EntriesOf("removed"))
                   = Len(old) + Len(new) - 2 * longest

\* A script over three old and three new lines whose longest common
\* subsequence has two lines, neither text a subsequence of the other.
C23_Witness ==
    /\ linePc = "done"
    /\ Len(Split(oldContent)) = 3
    /\ Len(Split(newContent)) = 3
    /\ LongestCommon(Split(oldContent), Split(newContent)) = 2
    /\ Cardinality(EntriesOf("unchanged")) = 2
    /\ Cardinality(EntriesOf("added")) = 1
    /\ Cardinality(EntriesOf("removed")) = 1
    /\ lineChanges[1].Type # "unchanged"
--------------------------------------------------------------------------
(* Claims about the payload of the block changes *)

\* C25: every removed entry carries the block the previous snapshot holds
\* under the entry's id, every added or modified entry carries the block the
\* new snapshot holds under it, and no id has two entries in a change list.
C25_PayloadBySide ==
    diffPc = "done" =>
        /\ \A k \in 1..Len(changes) :
              LET e == changes[k] IN
              /\ e.Type \in {"added", "modified", "removed"}
              /\ e.Type = "removed" =>
                    /\ e.BlockID \in DOMAIN diffPrev
                    /\ e.Block = diffPrev[e.BlockID]
              /\ e.Type \in {"added", "modified"} =>
                    /\ e.BlockID \in DOMAIN diffArg
                    /\ e.Block = diffArg[e.BlockID]
        /\ \A k, m \in 1..Len(changes) :
              k # m => changes[k].BlockID # changes[m].BlockID

\* A change list with a modified entry, whose payload differs from the
\* previous block of that id, and a removed entry.
C25_Witness ==
    /\ diffPc = "done"
    /\ Len(changes) = 2
    /\ \E k, m \in 1..2 :
          /\ changes[k].Type = "modified"
          /\ changes[k].Block # diffPrev[changes[k].BlockID]
          /\ changes[m].Type = "removed"
          /\ changes[m].Block = diffPrev[changes[m].BlockID]
--------------------------------------------------------------------------
(* Claims about the retained baseline *)

\* The entries of a change list, without their order.
Entries(list) == {list[k] : k \in 1..Len(list)}

\* The change list of pointers as the change list of the blocks pointed to.
Pointees(h, list) ==
    [k \in 1..Len(list) |-> [list[k] EXCEPT !.Block = ValueAt(h, list[k].Block)]]

\* After a call, and whatever the caller then writes, the baseline is equal
\* to the snapshot as it was at the call and shares no object with what the
\* caller holds.
BaselineApart ==
    heapPc \in {"done", "mutated"} =>
        /\ ValueOf(heap, retained) = retainedValue
        /\ Reach(heap, AddrsOf(retained)) \cap Reach(heap, HeldAddrs) = {}

\* A call returns the changes from the snapshot as it was at the call before
\* to the snapshot as it is now.
NextCallUnaltered ==
    heapPc' = "done" =>
        Entries(Pointees(heap', returned')) =
            Entries(ComputeDiffChanges(retainedValue, ValueOf(heap, held),
                                       CHOOSE o \in Orders(DOMAIN held) : TRUE,
                                       CHOOSE o \in Orders(DOMAIN retainedValue) : TRUE))

\* C24: after ComputeDiff(N) the retained baseline is a copy equal to N that
\* shares no block and no child block with N or with a block of the returned
\* change list; what the caller later writes to a block of N, to a child of
\* one or to a returned block leaves the baseline as it was, and the next
\* call returns the changes from N as it was at the call.
C24_BaselineIndependent ==
    /\ []BaselineApart
    /\ [][NextCallUnaltered]_vars

\* A call made after the caller wrote to a block of the snapshot it had
\* passed before: the call reports the block as modified, with the written
\* content, and the baseline has a block with a child.
C24_Witness ==
    /\ heapPc = "done"
    /\ \E k \in 1..Len(returned) :
          /\ returned[k].Type = "modified"
          /\ heap[returned[k].Block].Content = "w"
    /\ \E id \in DOMAIN retained : Len(heap[retained[id]].Children) > 0

\* The caller has written to the child of a block of its snapshot and to a
\* removed block of the change list.
C24_WitnessWrites ==
    /\ heapPc = "mutated"
    /\ \E id \in DOMAIN held :
          /\ Len(heap[held[id]].Children) > 0
          /\ heap[heap[held[id]].Children[1]].Content = "w"
          /\ retainedValue[id].Children[1].Content = "k"
    /\ \E k \in 1..Len(returned) :
          /\ returned[k].Type = "removed"
          /\ heap[returned[k].Block].Content = "w"
--------------------------------------------------------------------------
(* Claims about lines that begin with a number *)

\* The line begins, after trimming, with a decimal number that a space and
\* more text follow, as "3.14 is pi" does.
DecimalProse(t) ==
    /\ HasPrefix(t, Decimal)
    /\ Len(t) > Len(Decimal) + 1
    /\ t[Len(Decimal) + 1] = " "

\* The text has a '.' with a space right after it.
HasDotSpace(t) == \E k \in 1..(Len(t) - 1) : t[k] = "." /\ t[k + 1] = " "

\* C28 as stated: prose that begins with a decimal number is classified as
\* an ordered list.
C28_DecimalProseIsOrderedList ==
    (classifyPc = "classified" /\ DecimalProse(TrimSpace(line))) =>
        syntax = "ordered_list"

\* C28 amended: a line that begins, after trimming, with a digit is an
\* ordered list exactly when a '.' followed by a space occurs in it, and a
\* paragraph otherwise; so prose that begins with a decimal number is a
\* paragraph unless a '.' followed by a space comes later in the line.
C28_OrderedListNeedsDotSpace ==
    classifyPc = "classified" =>
        LET t == TrimSpace(line) IN
        (Len(t) > 0 /\ IsDigit(t[1])) =>
            /\ HasDotSpace(t) => syntax = "ordered_list"
            /\ ~HasDotSpace(t) => syntax = "paragraph"

\* The line "3.14 a" was classified as a paragraph.
C28_Witness ==
    /\ classifyPc = "classified"
    /\ line = Decimal \o <<" ", "a">>
    /\ DecimalProse(TrimSpace(line))
    /\ syntax = "paragraph"

\* The line "3.14. a" was classified as an ordered list.
C28_WitnessLaterDot ==
    /\ classifyPc = "classified"
    /\ line = Decimal \o <<".", " ", "a">>
    /\ syntax = "ordered_list"
--------------------------------------------------------------------------
(* Claims about the progress of Run *)

\* What Run did for the request it served last: a register request had one
\* enqueue attempted, on its own client; an unregister request none; a
\* broadcast request one on each client that was live, and on no other; no
\* buffer grew by more than one message.
OneAttemptEach ==
    last.op \in {"register", "unregister", "broadcast"} =>
        /\ last.op = "register" => last.attempted = {last.client}
        /\ last.op = "unregister" => last.attempted = {}
        /\ last.op = "broadcast" => last.attempted = last.pre.clients
        /\ \A c \in Clients :
              /\ Len(send[c]) <= Len(last.pre.send[c]) + 1
              /\ c \notin last.attempted => send[c] = last.pre.send[c]

\* C26: Run never waits on a consumer.  Whatever the writers do, stalled for
\* ever with every buffer full included, every register, unregister and
\* broadcast request that waits on a channel of the hub is received and
\* processed, and processing a request attempts at most one enqueue per
\* handle.
C26_RequestsProcessed ==
    /\ []OneAttemptEach
    /\ \A r \in Requests : (r \in pending) ~> (r \notin pending)

\* What does hold: a request that waits is processed unless the process has
\* panicked.
C26_ProcessedUnlessPanicked ==
    /\ []OneAttemptEach
    /\ \A r \in Requests : (r \in pending) ~> (r \notin pending \/ crashed)

\* The register request of c2 waits while the process is down: c1 was
\* dropped with a full buffer and its reader handed in one more message.
C26_WaitsForEver ==
    /\ crashed
    /\ Request("register", "c2") \in pending
    /\ closed["c1"]
    /\ last.op = "invalid"
    /\ last.client = "c1"

\* Run served a broadcast request while every live client had a full buffer.
C26_ServedWhileFull ==
    /\ last.op = "broadcast"
    /\ last.pre.clients = Clients
    /\ \A c \in Clients : IsFull(last.pre, c)
    /\ clients = {}
    /\ ~crashed
--------------------------------------------------------------------------
(* Claims about the live set and the closed buffers *)

\* Run has received the client on h.register.
Registered(c) == conn[c] \in {"open", "gone"}

LiveIffRegisteredAndOpen ==
    \A c \in Clients : c \in clients <=> (Registered(c) /\ ~closed[c])

\* The last step was a Dispatch or a BroadcastAll, and its loop ranged over
\* live clients whose buffers were open and attempted an enqueue on no
\* client whose buffer had been closed before.
FanOutAvoidsClosed ==
    last.op \in {"dispatch", "broadcast"} =>
        /\ \A c \in last.mid.clients : ~last.mid.closed[c]
        /\ \A c \in last.attempted : ~last.pre.closed[c] /\ c \in last.mid.clients

\* C29: in every reachable state of the hub a handle is in the live set if
\* and only if it has been registered and its buffer has not been closed,
\* and no Dispatch or BroadcastAll ranges over or enqueues to a handle whose
\* buffer was closed before.
C29_LiveIffRegisteredAndOpen ==
    /\ LiveIffRegisteredAndOpen
    /\ FanOutAvoidsClosed

\* What does hold: the same in every state in which no goroutine has
\* panicked, and the part about Dispatch and BroadcastAll in every state.
C29_HoldsUntilPanic ==
    /\ ~crashed => LiveIffRegisteredAndOpen
    /\ FanOutAvoidsClosed

\* Run has put c1 in the live set although its buffer was closed before, and
\* panicked on the acknowledgement.
C29_LiveAndClosed ==
    /\ last.op = "register"
    /\ last.client = "c1"
    /\ last.pre.closed["c1"]
    /\ "c1" \in clients
    /\ closed["c1"]
    /\ crashed

==========================================================================
